---- MODULE Spec2Model ----
(***************************************************************************)
(* Model of the wassette component lifecycle manager                       *)
(* (crates/weld/src/lib.rs): the component map, the component registry,    *)
(* the policy registry and the plugin directory, and the operations        *)
(* load / unload / uninstall / attach_policy / detach_policy /             *)
(* grant_permission, each split at its await points.                       *)
(***************************************************************************)
EXTENDS Integers, Sequences, FiniteSets, TLC

VARIABLES
    components,       \* LifecycleManager.components : id -> compiled component
    registry,         \* LifecycleManager.registry   : [tool_map, component_map]
    policy_registry,  \* LifecycleManager.policy_registry.component_policies
    wasm,             \* plugin_dir/<id>.wasm            : id -> file content
    policy_yaml,      \* plugin_dir/<id>.policy.yaml     : id -> policy document
    policy_meta,      \* plugin_dir/<id>.policy.meta.json: id -> source_uri
    pc,               \* position of every task inside its operation
    loc,              \* local variables of the operation a task is running
    ret,              \* the value returned by the operation that returned last
    nops,             \* number of operations started (bounded specifications)
    last,             \* history: per id, the operation that succeeded last and how often in a row
    base,             \* history: the policy document of GrantId at construction
    granted,          \* history: the rules granted successfully, in order
    held,             \* the RwLock guards that are alive: [task, lock, mode]
    ip,               \* position of every task in the lock program of its operation
    conv,             \* component2json: the input, the intermediate values and the result of a conversion
    request,          \* mcp-server: per task, the name of the tools/call request it is handling
    reply             \* mcp-server: the value handle_tools_call returned last

vars == <<components, registry, policy_registry, wasm, policy_yaml, policy_meta,
          pc, loc, ret, nops, last, base, granted, held, ip, conv, request, reply>>

memVars  == <<components, registry>>
polVars  == <<policy_registry, policy_yaml, policy_meta>>
histVars == <<nops, last, base, granted>>
lockVars == <<held, ip>>
toolVars == <<request, reply>>

----------------------------------------------------------------------------
(* Bounds and input sets *)

\* the tasks that run operations concurrently
Tasks == {"t1", "t2"}

\* component ids = stems of the .wasm files that are loaded
Ids == {"a", "b"}

\* the component whose policy the grant sequences of SpecGrant extend
GrantId == "a"

\* the component binaries that the URIs given to load_component resolve to
Binaries == {"v1", "v2"}

\* exported functions of each binary: name and signature
Exports(bin) ==
    IF bin = "v1"
    THEN << [name |-> "run", sig |-> "s1"], [name |-> "aux", sig |-> "s1"] >>
    ELSE << [name |-> "run", sig |-> "s2"] >>

ToolNames == {"run", "aux"}

----------------------------------------------------------------------------
(* HashMap helpers *)

MapInsert(m, k, v) == [x \in (DOMAIN m) \cup {k} |-> IF x = k THEN v ELSE m[x]]

MapRemove(m, k) == [x \in (DOMAIN m) \ {k} |-> m[x]]

EmptyMap == [x \in {} |-> 0]

\* Vec::retain
RECURSIVE Retain(_, _)
Retain(s, keepId) ==
    IF s = <<>> THEN <<>>
    ELSE IF keepId[Head(s).component_id]
         THEN <<Head(s)>> \o Retain(Tail(s), keepId)
         ELSE Retain(Tail(s), keepId)

----------------------------------------------------------------------------
(* component2json::component_exports_to_json_schema *)

ComponentExportsToJsonSchema(bin) ==
    [tools |-> [i \in 1..Len(Exports(bin)) |->
                   [name |-> Exports(bin)[i].name,
                    inputSchema |-> Exports(bin)[i].sig]]]

----------------------------------------------------------------------------
(* ComponentRegistry *)

NewRegistry == [tool_map |-> EmptyMap, component_map |-> EmptyMap]

\* the loop of register_component over the tools of the schema
RECURSIVE RegisterTools(_, _, _)
RegisterTools(tm, id, tools) ==
    IF tools = <<>> THEN tm
    ELSE LET tool   == Head(tools)
             bucket == IF tool.name \in DOMAIN tm THEN tm[tool.name] ELSE <<>>
             info   == [component_id |-> id, schema |-> tool]
         IN RegisterTools(MapInsert(tm, tool.name, Append(bucket, info)), id, Tail(tools))

RegisterComponent(reg, id, schema) ==
    [tool_map      |-> RegisterTools(reg.tool_map, id, schema.tools),
     component_map |-> MapInsert(reg.component_map, id,
                                 [i \in 1..Len(schema.tools) |-> schema.tools[i].name])]

\* variant: a bucket that loses its last entry is kept
RECURSIVE UnregisterToolsKeepEmpty(_, _, _)
UnregisterToolsKeepEmpty(tm, id, names) ==
    IF names = <<>> THEN tm
    ELSE LET n == Head(names)
         IN IF n \in DOMAIN tm
            THEN UnregisterToolsKeepEmpty(
                    MapInsert(tm, n, Retain(tm[n], [c \in Ids |-> c # id])), id, Tail(names))
            ELSE UnregisterToolsKeepEmpty(tm, id, Tail(names))

RECURSIVE UnregisterTools(_, _, _)
UnregisterTools(tm, id, names) ==
    IF names = <<>> THEN tm
    ELSE LET n == Head(names)
         IN IF n \in DOMAIN tm
            THEN LET kept == Retain(tm[n], [c \in Ids |-> c # id])
                 IN UnregisterTools(IF kept = <<>> THEN MapRemove(tm, n)
                                                   ELSE MapInsert(tm, n, kept),
                                    id, Tail(names))
            ELSE UnregisterTools(tm, id, Tail(names))

\* mutation: the reverse index is dropped but the tool index is left alone
UnregisterComponentKeepTools(reg, id) ==
    [tool_map |-> reg.tool_map, component_map |-> MapRemove(reg.component_map, id)]

UnregisterComponent(reg, id) ==
    IF id \in DOMAIN reg.component_map
    THEN [tool_map      |-> UnregisterTools(reg.tool_map, id, reg.component_map[id]),
          component_map |-> MapRemove(reg.component_map, id)]
    ELSE reg

GetToolInfo(reg, name) ==
    IF name \in DOMAIN reg.tool_map THEN reg.tool_map[name] ELSE <<>>

----------------------------------------------------------------------------
(* Policy documents, permission rules and sandbox templates *)

\* JSON values of the details object of a grant request
JStr(x) == [t |-> "str", s |-> x, a |-> <<>>]
JNum(x) == [t |-> "num", s |-> x, a |-> <<>>]
JArr(xs) == [t |-> "arr", s |-> "", a |-> xs]

\* uri.starts_with("fs://") and the path after the prefix, on the uris used
StartsWithFs(uri) == uri \in {"fs:///data", "fs:///tmp", "fs:///plugins"}

StripFs(uri) ==
    IF uri = "fs:///data" THEN "/data" ELSE IF uri = "fs:///plugins" THEN "/plugins" ELSE "/tmp"

\* the path of the plugin directory of the manager
PluginDirPath == "/plugins"

NoRule == [kind |-> "none", host |-> "", uri |-> "", access |-> <<>>]

\* policy_mcp::PolicyDocument with empty permissions
EmptyDoc == [version |-> "1.0", network |-> <<>>, storage |-> <<>>, environment |-> <<>>]

NoDoc == EmptyDoc

\* the content of a sidecar that cannot be read or that PolicyParser::parse_str rejects
BrokenDoc == [version |-> "", network |-> <<>>, storage |-> <<>>, environment |-> <<>>]

\* PolicyParser::parse_str succeeds on the content of a sidecar
DocParses(doc) == doc # BrokenDoc

\* parse_permission_rule
ParsePermissionRule(permission_type, details) ==
    IF permission_type = "network"
    THEN IF "host" \in DOMAIN details /\ details["host"].t = "str"
         THEN [ok |-> TRUE,
               rule |-> [kind |-> "network", host |-> details["host"].s,
                         uri |-> "", access |-> <<>>]]
         ELSE [ok |-> FALSE, rule |-> NoRule]
    ELSE IF permission_type = "storage"
    THEN IF /\ "uri" \in DOMAIN details /\ details["uri"].t = "str"
            /\ "access" \in DOMAIN details /\ details["access"].t = "arr"
            /\ \A i \in 1..Len(details["access"].a) :
                  /\ details["access"].a[i].t = "str"
                  /\ details["access"].a[i].s \in {"read", "write"}
         THEN [ok |-> TRUE,
               rule |-> [kind |-> "storage", host |-> "",
                         uri |-> details["uri"].s,
                         access |-> [i \in 1..Len(details["access"].a) |->
                                        details["access"].a[i].s]]]
         ELSE [ok |-> FALSE, rule |-> NoRule]
    ELSE [ok |-> FALSE, rule |-> NoRule]

\* mutant: only the host of a network rule is validated
ValidateHostOnly(rule) ==
    IF rule.kind = "network" THEN rule.host # "" ELSE TRUE

\* validate_permission_rule
ValidatePermissionRule(rule) ==
    IF rule.kind = "network" THEN rule.host # ""
    ELSE rule.uri # "" /\ rule.access # <<>>

\* the merge loop over the granted access types: push those not yet present
RECURSIVE MergeAccess(_, _)
MergeAccess(existing, new) ==
    IF new = <<>> THEN existing
    ELSE IF \E i \in 1..Len(existing) : existing[i] = Head(new)
         THEN MergeAccess(existing, Tail(new))
         ELSE MergeAccess(Append(existing, Head(new)), Tail(new))

\* index of the first storage entry with the uri, 0 if none
FirstWithUri(allow_list, uri) ==
    IF \E i \in 1..Len(allow_list) : allow_list[i].uri = uri
    THEN CHOOSE i \in 1..Len(allow_list) :
            /\ allow_list[i].uri = uri
            /\ \A j \in 1..(i - 1) : allow_list[j].uri # uri
    ELSE 0

\* mutant: a network host is pushed without looking for an existing entry
AddPermissionRuleNoHostCheck(policy, rule) ==
    IF rule.kind = "network"
    THEN [policy EXCEPT !.network = Append(@, [host |-> rule.host])]
    ELSE LET k == FirstWithUri(policy.storage, rule.uri)
         IN IF k # 0
            THEN [policy EXCEPT !.storage[k].access = MergeAccess(@, rule.access)]
            ELSE [policy EXCEPT !.storage =
                      Append(@, [uri |-> rule.uri, access |-> rule.access])]

\* add_permission_rule_to_policy
AddPermissionRuleToPolicy(policy, rule) ==
    IF rule.kind = "network"
    THEN IF \E i \in 1..Len(policy.network) : policy.network[i].host = rule.host
         THEN policy
         ELSE [policy EXCEPT !.network = Append(@, [host |-> rule.host])]
    ELSE LET k == FirstWithUri(policy.storage, rule.uri)
         IN IF k # 0
            THEN [policy EXCEPT !.storage[k].access = MergeAccess(@, rule.access)]
            ELSE [policy EXCEPT !.storage =
                      Append(@, [uri |-> rule.uri, access |-> rule.access])]

\* dir/file permissions of a preopened directory from the access list
PermsOf(access) ==
    LET r == \E i \in 1..Len(access) : access[i] = "read"
        w == \E i \in 1..Len(access) : access[i] = "write"
    IN IF r /\ w THEN "read-write" ELSE IF w THEN "write-only" ELSE "read-only"

RECURSIVE PreopenedDirs(_)
PreopenedDirs(allow_list) ==
    IF allow_list = <<>> THEN <<>>
    ELSE IF StartsWithFs(Head(allow_list).uri)
         THEN << [host_path |-> StripFs(Head(allow_list).uri),
                  guest_path |-> StripFs(Head(allow_list).uri),
                  perms |-> PermsOf(Head(allow_list).access)] >>
              \o PreopenedDirs(Tail(allow_list))
         ELSE PreopenedDirs(Tail(allow_list))

\* wasistate::create_wasi_state_template_from_policy
CreateWasiStateTemplateFromPolicy(policy) ==
    [allow_stdout   |-> FALSE,
     allow_stderr   |-> TRUE,
     allow_args     |-> TRUE,
     network_perms  |-> [allow_tcp |-> Len(policy.network) > 0,
                         allow_udp |-> Len(policy.network) > 0,
                         allow_ip_name_lookup |-> Len(policy.network) > 0],
     preopened_dirs |-> PreopenedDirs(policy.storage),
     config_vars    |-> [i \in 1..Len(policy.environment) |->
                            <<policy.environment[i].key, "">>]]

\* WasiStateTemplate::default
DefaultTemplate == CreateWasiStateTemplateFromPolicy(EmptyDoc)

\* the policy files that the URIs given to attach_policy resolve to
PolicyUris == {"file:///p1.yaml", "file:///p2.yaml", "file:///broken.yaml"}

PolicyParses(uri) == uri # "file:///broken.yaml"

PolicyFile(uri) ==
    IF uri = "file:///p1.yaml"
    THEN [EmptyDoc EXCEPT !.network = << [host |-> "h1"] >>,
                          !.environment = << [key |-> "TEST_VAR"] >>]
    ELSE [EmptyDoc EXCEPT !.network = << [host |-> "h1"], [host |-> "h1"] >>,
                          !.storage = << [uri |-> "fs:///data", access |-> <<"read">>] >>]

----------------------------------------------------------------------------
(* Task-local state *)

IdleLoc == [op |-> "none", id |-> "", arg |-> "", seen |-> "", rule |-> NoRule, doc |-> NoDoc,
            state |-> <<>>]

NoRet == [op |-> "none", id |-> "", res |-> "", info |-> "", tool |-> "", ids |-> <<>>]

Returns(op, id, res, info) ==
    ret' = [op |-> op, id |-> id, res |-> res, info |-> info, tool |-> "", ids |-> <<>>]

\* the error of get_component_id_for_tool: message, tool name, candidate ids
ReturnsToolError(info, tool, ids) ==
    ret' = [op |-> "call", id |-> "", res |-> "Err", info |-> info, tool |-> tool, ids |-> ids]

Goto(p, label) == pc' = [pc EXCEPT ![p] = label]

Done(p) == /\ pc' = [pc EXCEPT ![p] = "idle"]
           /\ loc' = [loc EXCEPT ![p] = IdleLoc]

AllIdle == \A p \in Tasks : pc[p] = "idle"

\* a task that runs no lock program
IdleIp == [op |-> "none", i |-> 0]

\* no conversion is being applied
IdleConv == [mode |-> "idle"]

\* no tools/call request is being handled, none has returned
NoReq == [name |-> "", handler |-> "none", component_id |-> "", policy_uri |-> ""]

NoReply ==
    [result |-> "", name |-> "", is_error |-> FALSE, text |-> "", tools |-> {}, errors |-> 0]

----------------------------------------------------------------------------
(* LifecycleManager::load_component *)

\* mutant: a load that fails before the registry block drops the registration
LoadAbortUnregister(p, id) ==
    /\ pc[p] = "idle"
    /\ registry' = UnregisterComponent(registry, id)
    /\ Returns("load", id, "Err", "fetch")
    /\ UNCHANGED <<components, polVars, wasm, pc, loc>>

\* load_resource, the read of the file, Component::new or id() fails
LoadAbort(p, id) ==
    /\ pc[p] = "idle"
    /\ Returns("load", id, "Err", "fetch")
    /\ UNCHANGED <<components, registry, polVars, wasm, pc, loc>>

\* mutant: the new schema is registered on top of the old registration
LoadRegisterAppend(p, id, bin) ==
    /\ pc[p] = "idle"
    /\ registry' = RegisterComponent(registry, id, ComponentExportsToJsonSchema(bin))
    /\ loc' = [loc EXCEPT ![p] = [IdleLoc EXCEPT !.op = "load", !.id = id, !.arg = bin]]
    /\ Goto(p, "load_copy")
    /\ ret' = NoRet
    /\ UNCHANGED <<components, polVars, wasm>>

\* fetch, read, compile and schema generation succeed; then, under the
\* registry write lock: unregister_component(id); register_component(id, schema)
LoadRegister(p, id, bin) ==
    /\ pc[p] = "idle"
    /\ registry' = RegisterComponent(UnregisterComponent(registry, id), id,
                                     ComponentExportsToJsonSchema(bin))
    /\ loc' = [loc EXCEPT ![p] = [IdleLoc EXCEPT !.op = "load", !.id = id, !.arg = bin]]
    /\ Goto(p, "load_copy")
    /\ ret' = NoRet
    /\ UNCHANGED <<components, polVars, wasm>>

\* downloaded_resource.copy_to(plugin_dir) succeeds
LoadCopyOk(p) ==
    /\ pc[p] = "load_copy"
    /\ wasm' = MapInsert(wasm, loc[p].id, loc[p].arg)
    /\ Goto(p, "load_insert")
    /\ ret' = NoRet
    /\ UNCHANGED <<components, registry, polVars, loc>>

\* copy_to fails: before anything was written, or (Temp) after the rename,
\* when the temporary directory cannot be cleaned up
LoadCopyFail(p) ==
    /\ pc[p] = "load_copy"
    /\ \E renamed \in BOOLEAN :
          wasm' = IF renamed THEN MapInsert(wasm, loc[p].id, loc[p].arg) ELSE wasm
    /\ Goto(p, "load_rollback")
    /\ ret' = NoRet
    /\ UNCHANGED <<components, registry, polVars, loc>>

\* mutant: the error branch returns without unregistering
LoadRollbackSkip(p) ==
    /\ pc[p] = "load_rollback"
    /\ Returns("load", loc[p].id, "Err", "copy")
    /\ Done(p)
    /\ UNCHANGED <<components, registry, polVars, wasm>>

\* the error branch: registry write lock, unregister_component(id), bail!
LoadRollback(p) ==
    /\ pc[p] = "load_rollback"
    /\ registry' = UnregisterComponent(registry, loc[p].id)
    /\ Returns("load", loc[p].id, "Err", "copy")
    /\ Done(p)
    /\ UNCHANGED <<components, polVars, wasm>>

\* mutant: a load that replaces a component resets its policy to the default
LoadInsertResetPolicy(p) ==
    /\ pc[p] = "load_insert"
    /\ components' = MapInsert(components, loc[p].id, loc[p].arg)
    /\ policy_registry' = IF loc[p].id \in DOMAIN components
                          THEN MapRemove(policy_registry, loc[p].id)
                          ELSE policy_registry
    /\ Returns("load", loc[p].id,
               IF loc[p].id \in DOMAIN components THEN "Replaced" ELSE "New",
               loc[p].arg)
    /\ Done(p)
    /\ UNCHANGED <<registry, policy_yaml, policy_meta, wasm>>

\* components.write().insert(id, component) -> Replaced | New
LoadInsert(p) ==
    /\ pc[p] = "load_insert"
    /\ components' = MapInsert(components, loc[p].id, loc[p].arg)
    /\ Returns("load", loc[p].id,
               IF loc[p].id \in DOMAIN components THEN "Replaced" ELSE "New",
               loc[p].arg)
    /\ Done(p)
    /\ UNCHANGED <<registry, polVars, wasm>>

----------------------------------------------------------------------------
(* LifecycleManager::unload_component / uninstall_component *)

\* self.components.write().await.remove(id)
UnloadRemove(p, id, op) ==
    /\ pc[p] = "idle"
    /\ components' = MapRemove(components, id)
    /\ loc' = [loc EXCEPT ![p] = [IdleLoc EXCEPT !.op = op, !.id = id]]
    /\ Goto(p, "unload_unregister")
    /\ ret' = NoRet
    /\ UNCHANGED <<registry, polVars, wasm>>

\* self.registry.write().await.unregister_component(id)
UnloadUnregister(p) ==
    /\ pc[p] = "unload_unregister"
    /\ registry' = UnregisterComponent(registry, loc[p].id)
    /\ IF loc[p].op = "uninstall"
       THEN /\ Goto(p, "uninstall_file")
            /\ ret' = NoRet
            /\ UNCHANGED loc
       ELSE /\ Returns("unload", loc[p].id, "Ok", "")
            /\ Done(p)
    /\ UNCHANGED <<components, polVars, wasm>>

\* mutant: uninstall reports success and leaves <id>.wasm in the plugin directory
UninstallKeepFile(p) ==
    /\ pc[p] = "uninstall_file"
    /\ Returns("uninstall", loc[p].id, "Ok", "")
    /\ Done(p)
    /\ UNCHANGED <<components, registry, polVars, wasm>>

\* tokio::fs::remove_file(component_path(id))
UninstallRemoveFile(p) ==
    /\ pc[p] = "uninstall_file"
    /\ wasm' = MapRemove(wasm, loc[p].id)
    /\ Returns("uninstall", loc[p].id,
               IF loc[p].id \in DOMAIN wasm THEN "Ok" ELSE "Err", "")
    /\ Done(p)
    /\ UNCHANGED <<components, registry, polVars>>

----------------------------------------------------------------------------
(* A reader: get_component_id_for_tool, then get_component *)

\* the component ids of a bucket of the tool index, in bucket order
CandidateIds(infos) == [i \in 1..Len(infos) |-> infos[i].component_id]

\* mutant: the first entry of the bucket is taken whatever its size
LookupToolFirst(p, name) ==
    /\ pc[p] = "idle"
    /\ LET infos == GetToolInfo(registry, name)
       IN IF Len(infos) >= 1
          THEN /\ loc' = [loc EXCEPT ![p] = [IdleLoc EXCEPT !.op = "call",
                                                          !.id = infos[1].component_id,
                                                          !.arg = name,
                                                          !.seen = infos[1].schema.inputSchema]]
               /\ Goto(p, "call_component")
               /\ ret' = NoRet
          ELSE /\ ReturnsToolError("Tool not found", name, <<>>)
               /\ UNCHANGED <<pc, loc>>
    /\ UNCHANGED <<components, registry, polVars, wasm>>

\* get_component_id_for_tool(tool_name), under the registry read lock
LookupTool(p, name) ==
    /\ pc[p] = "idle"
    /\ LET infos == GetToolInfo(registry, name)
       IN IF Len(infos) = 1
          THEN /\ loc' = [loc EXCEPT ![p] = [IdleLoc EXCEPT !.op = "call",
                                                          !.id = infos[1].component_id,
                                                          !.arg = name,
                                                          !.seen = infos[1].schema.inputSchema]]
               /\ Goto(p, "call_component")
               /\ ret' = NoRet
          ELSE /\ IF Len(infos) = 0
                  THEN ReturnsToolError("Tool not found", name, <<>>)
                  ELSE ReturnsToolError("Multiple components found for tool", name,
                                        CandidateIds(infos))
               /\ UNCHANGED <<pc, loc>>
    /\ UNCHANGED <<components, registry, polVars, wasm>>

\* get_component(component_id), under the component-map read lock
GetComponent(p) ==
    /\ pc[p] = "call_component"
    /\ Returns("call", loc[p].id,
               IF loc[p].id \in DOMAIN components THEN components[loc[p].id] ELSE "none",
               loc[p].seen)
    /\ Done(p)
    /\ UNCHANGED <<components, registry, polVars, wasm>>

----------------------------------------------------------------------------
(* Policy views *)

\* get_wasi_state_for_component: the template an Execute builds its sandbox from
TemplateFor(id) ==
    IF id \in DOMAIN policy_registry THEN policy_registry[id] ELSE DefaultTemplate

NoPolicyInfo == [found |-> FALSE, source_uri |-> "", component_id |-> ""]

\* get_policy_info
GetPolicyInfo(id) ==
    IF id \notin DOMAIN policy_yaml
    THEN NoPolicyInfo
    ELSE [found |-> TRUE,
          source_uri |-> IF id \in DOMAIN policy_meta
                         THEN policy_meta[id].source_uri
                         ELSE "file://policy_path",
          component_id |-> id]

----------------------------------------------------------------------------
(* LifecycleManager::execute_component_call *)

\* WasiStateTemplate::build: the WasiCtx a call runs in
Build(template) ==
    [inherit_stdout       |-> template.allow_stdout,
     inherit_stderr       |-> template.allow_stderr,
     inherit_args         |-> TRUE,
     inherit_network      |-> TRUE,
     allow_tcp            |-> template.network_perms.allow_tcp,
     allow_udp            |-> template.network_perms.allow_udp,
     allow_ip_name_lookup |-> template.network_perms.allow_ip_name_lookup,
     preopened_dirs       |-> template.preopened_dirs,
     wasi_config_vars     |-> template.config_vars]

\* get_component(component_id) or the "Component not found" error
ExecGetComponent(p, id) ==
    /\ pc[p] = "idle"
    /\ IF id \in DOMAIN components
       THEN /\ loc' = [loc EXCEPT ![p] = [IdleLoc EXCEPT !.op = "execute", !.id = id,
                                                       !.arg = components[id]]]
            /\ Goto(p, "exec_state")
            /\ ret' = NoRet
       ELSE /\ Returns("execute", id, "Err", "Component not found")
            /\ UNCHANGED <<pc, loc>>
    /\ UNCHANGED <<components, registry, polVars, wasm>>

\* get_wasi_state_for_component: the template of the policy registry, or the
\* default one, is cloned and built; preopened_dir may fail on any directory
ExecState(p) ==
    /\ pc[p] = "exec_state"
    /\ \E opened \in BOOLEAN :
          IF opened \/ TemplateFor(loc[p].id).preopened_dirs = <<>>
          THEN /\ loc' = [loc EXCEPT ![p].state = << Build(TemplateFor(loc[p].id)) >>]
               /\ Goto(p, "exec_instantiate")
               /\ ret' = NoRet
          ELSE /\ Returns("execute", loc[p].id, "Err", "build")
               /\ Done(p)
    /\ UNCHANGED <<components, registry, polVars, wasm>>

\* mutant: the store is made from the template the policy registry holds at
\* instantiation
ExecInstantiateReread(p) ==
    /\ pc[p] = "exec_instantiate"
    /\ loc' = [loc EXCEPT ![p].state = << Build(TemplateFor(loc[p].id)) >>]
    /\ Goto(p, "exec_call")
    /\ ret' = NoRet
    /\ UNCHANGED <<components, registry, polVars, wasm>>

\* Linker, Store::new(engine, state), linker.instantiate_async(store, component)
ExecInstantiate(p) ==
    /\ pc[p] = "exec_instantiate"
    /\ \E ok \in BOOLEAN :
          IF ok
          THEN /\ Goto(p, "exec_call")
               /\ ret' = NoRet
               /\ UNCHANGED loc
          ELSE /\ Returns("execute", loc[p].id, "Err", "instantiate")
               /\ Done(p)
    /\ UNCHANGED <<components, registry, polVars, wasm>>

\* the WasiCtx preopens the plugin directory with write permission
GuestCanWritePluginDir(state) ==
    \E i \in 1..Len(state.preopened_dirs) :
       /\ state.preopened_dirs[i].host_path = PluginDirPath
       /\ state.preopened_dirs[i].perms \in {"write-only", "read-write"}

\* what the guest may leave of the .wasm files of the plugin directory: it
\* touches nothing, or unlinks one file through a writable preopened directory
GuestWrites(state) ==
    {wasm} \cup (IF GuestCanWritePluginDir(state)
                 THEN {MapRemove(wasm, f) : f \in DOMAIN wasm}
                 ELSE {})

\* the export lookup, json_to_vals, func.call_async (the guest runs in the
\* WasiCtx of the store), vals_to_json
ExecCall(p) ==
    /\ pc[p] = "exec_call"
    /\ \E ok \in BOOLEAN :
          Returns("execute", loc[p].id, IF ok THEN "Ok" ELSE "Err", IF ok THEN "" ELSE "call")
    /\ wasm' \in GuestWrites(loc[p].state[1])
    /\ Done(p)
    /\ UNCHANGED <<components, registry, polVars>>

\* the task of the call is dropped at an await point: the store and its
\* WasiState are dropped with it
ExecCancel(p) ==
    /\ pc[p] \in {"exec_state", "exec_instantiate", "exec_call"}
    /\ Returns("execute", loc[p].id, "Cancelled", "")
    /\ Done(p)
    /\ UNCHANGED <<components, registry, polVars, wasm>>

----------------------------------------------------------------------------
(* LifecycleManager::attach_policy *)

\* mutant: the policy is fetched without looking at the component map
AttachBeginUnchecked(p, id, uri) ==
    /\ pc[p] = "idle"
    /\ loc' = [loc EXCEPT ![p] = [IdleLoc EXCEPT !.op = "attach", !.id = id, !.arg = uri]]
    /\ Goto(p, "attach_fetch")
    /\ ret' = NoRet
    /\ UNCHANGED <<components, registry, polVars, wasm>>

\* the component-map check
AttachBegin(p, id, uri) ==
    /\ pc[p] = "idle"
    /\ IF id \in DOMAIN components
       THEN /\ loc' = [loc EXCEPT ![p] = [IdleLoc EXCEPT !.op = "attach", !.id = id, !.arg = uri]]
            /\ Goto(p, "attach_fetch")
            /\ ret' = NoRet
       ELSE /\ Returns("attach", id, "Err", "Component not found")
            /\ UNCHANGED <<pc, loc>>
    /\ UNCHANGED <<components, registry, polVars, wasm>>

\* load_resource::<PolicyResource>, read_to_string, PolicyParser::parse_str
AttachFetch(p) ==
    /\ pc[p] = "attach_fetch"
    /\ IF PolicyParses(loc[p].arg)
       THEN /\ loc' = [loc EXCEPT ![p].doc = PolicyFile(loc[p].arg)]
            /\ Goto(p, "attach_copy")
            /\ ret' = NoRet
       ELSE /\ Returns("attach", loc[p].id, "Err", "parse")
            /\ Done(p)
    /\ UNCHANGED <<components, registry, polVars, wasm>>

\* tokio::fs::copy(downloaded_policy, policy_path)
AttachCopy(p) ==
    /\ pc[p] = "attach_copy"
    /\ \E ok \in BOOLEAN :
          IF ok
          THEN /\ policy_yaml' = MapInsert(policy_yaml, loc[p].id, loc[p].doc)
               /\ Goto(p, "attach_meta")
               /\ ret' = NoRet
               /\ UNCHANGED loc
          ELSE /\ Returns("attach", loc[p].id, "Err", "copy")
               /\ Done(p)
               /\ UNCHANGED policy_yaml
    /\ UNCHANGED <<components, registry, policy_registry, policy_meta, wasm>>

\* mutant: the metadata file is written only when there is none yet
AttachMetaKeepOld(p) ==
    /\ pc[p] = "attach_meta"
    /\ policy_meta' = IF loc[p].id \in DOMAIN policy_meta THEN policy_meta
                      ELSE MapInsert(policy_meta, loc[p].id, [source_uri |-> loc[p].arg])
    /\ Goto(p, "attach_registry")
    /\ ret' = NoRet
    /\ UNCHANGED <<components, registry, policy_registry, policy_yaml, wasm, loc>>

\* tokio::fs::write(metadata_path, {source_uri, attached_at})
AttachMeta(p) ==
    /\ pc[p] = "attach_meta"
    /\ \E ok \in BOOLEAN :
          IF ok
          THEN /\ policy_meta' = MapInsert(policy_meta, loc[p].id, [source_uri |-> loc[p].arg])
               /\ Goto(p, "attach_registry")
               /\ ret' = NoRet
               /\ UNCHANGED loc
          ELSE /\ Returns("attach", loc[p].id, "Err", "metadata")
               /\ Done(p)
               /\ UNCHANGED policy_meta
    /\ UNCHANGED <<components, registry, policy_registry, policy_yaml, wasm>>

\* create_wasi_state_template_from_policy; policy_registry.write().insert
AttachRegistry(p) ==
    /\ pc[p] = "attach_registry"
    /\ policy_registry' = MapInsert(policy_registry, loc[p].id,
                                    CreateWasiStateTemplateFromPolicy(loc[p].doc))
    /\ Returns("attach", loc[p].id, "Ok", loc[p].arg)
    /\ Done(p)
    /\ UNCHANGED <<components, registry, policy_yaml, policy_meta, wasm>>

----------------------------------------------------------------------------
(* LifecycleManager::detach_policy *)

\* mutant: detaching from a component without a registry entry is an error
DetachRegistryStrict(p, id) ==
    /\ pc[p] = "idle"
    /\ IF id \in DOMAIN policy_registry
       THEN /\ policy_registry' = MapRemove(policy_registry, id)
            /\ loc' = [loc EXCEPT ![p] = [IdleLoc EXCEPT !.op = "detach", !.id = id]]
            /\ Goto(p, "detach_check_yaml")
            /\ ret' = NoRet
       ELSE /\ Returns("detach", id, "Err", "no policy")
            /\ UNCHANGED <<policy_registry, pc, loc>>
    /\ UNCHANGED <<components, registry, policy_yaml, policy_meta, wasm>>

\* policy_registry.write().component_policies.remove(component_id)
DetachRegistry(p, id) ==
    /\ pc[p] = "idle"
    /\ policy_registry' = MapRemove(policy_registry, id)
    /\ loc' = [loc EXCEPT ![p] = [IdleLoc EXCEPT !.op = "detach", !.id = id]]
    /\ Goto(p, "detach_check_yaml")
    /\ ret' = NoRet
    /\ UNCHANGED <<components, registry, policy_yaml, policy_meta, wasm>>

\* policy_path.exists()
DetachCheckYaml(p) ==
    /\ pc[p] = "detach_check_yaml"
    /\ Goto(p, IF loc[p].id \in DOMAIN policy_yaml THEN "detach_remove_yaml"
                                                 ELSE "detach_check_meta")
    /\ ret' = NoRet
    /\ UNCHANGED <<components, registry, polVars, wasm, loc>>

\* tokio::fs::remove_file(policy_path)
DetachRemoveYaml(p) ==
    /\ pc[p] = "detach_remove_yaml"
    /\ IF loc[p].id \in DOMAIN policy_yaml
       THEN /\ policy_yaml' = MapRemove(policy_yaml, loc[p].id)
            /\ Goto(p, "detach_check_meta")
            /\ ret' = NoRet
            /\ UNCHANGED loc
       ELSE /\ Returns("detach", loc[p].id, "Err", "remove policy")
            /\ Done(p)
            /\ UNCHANGED policy_yaml
    /\ UNCHANGED <<components, registry, policy_registry, policy_meta, wasm>>

\* metadata_path.exists()
DetachCheckMeta(p) ==
    /\ pc[p] = "detach_check_meta"
    /\ IF loc[p].id \in DOMAIN policy_meta
       THEN /\ Goto(p, "detach_remove_meta")
            /\ ret' = NoRet
            /\ UNCHANGED loc
       ELSE /\ Returns("detach", loc[p].id, "Ok", "")
            /\ Done(p)
    /\ UNCHANGED <<components, registry, polVars, wasm>>

\* tokio::fs::remove_file(metadata_path)
DetachRemoveMeta(p) ==
    /\ pc[p] = "detach_remove_meta"
    /\ policy_meta' = MapRemove(policy_meta, loc[p].id)
    /\ Returns("detach", loc[p].id,
               IF loc[p].id \in DOMAIN policy_meta THEN "Ok" ELSE "Err", "")
    /\ Done(p)
    /\ UNCHANGED <<components, registry, policy_registry, policy_yaml, wasm>>

----------------------------------------------------------------------------
(* LifecycleManager::grant_permission *)

\* steps 1-3: component-map check, parse_permission_rule, validate_permission_rule
GrantBegin(p, id, permission_type, details) ==
    /\ pc[p] = "idle"
    /\ LET parsed == ParsePermissionRule(permission_type, details)
       IN IF id \notin DOMAIN components
          THEN /\ Returns("grant", id, "Err", "Component not found")
               /\ UNCHANGED <<pc, loc>>
          ELSE IF ~parsed.ok
          THEN /\ Returns("grant", id, "Err", "parse")
               /\ UNCHANGED <<pc, loc>>
          ELSE IF ~ValidatePermissionRule(parsed.rule)
          THEN /\ Returns("grant", id, "Err", "validate")
               /\ UNCHANGED <<pc, loc>>
          ELSE /\ loc' = [loc EXCEPT ![p] = [IdleLoc EXCEPT !.op = "grant", !.id = id,
                                                           !.rule = parsed.rule]]
               /\ Goto(p, "grant_load")
               /\ ret' = NoRet
    /\ UNCHANGED <<components, registry, polVars, wasm>>

\* steps 4-5: load_or_create_component_policy, add_permission_rule_to_policy
GrantLoad(p) ==
    /\ pc[p] = "grant_load"
    /\ IF loc[p].id \in DOMAIN policy_yaml /\ ~DocParses(policy_yaml[loc[p].id])
       THEN /\ Returns("grant", loc[p].id, "Err", "parse policy")
            /\ Done(p)
       ELSE /\ LET policy == IF loc[p].id \in DOMAIN policy_yaml
                             THEN policy_yaml[loc[p].id] ELSE EmptyDoc
               IN loc' = [loc EXCEPT ![p].doc = AddPermissionRuleToPolicy(policy, loc[p].rule)]
            /\ Goto(p, "grant_save")
            /\ ret' = NoRet
    /\ UNCHANGED <<components, registry, polVars, wasm>>

\* step 6: save_component_policy
GrantSave(p) ==
    /\ pc[p] = "grant_save"
    /\ \E ok \in BOOLEAN :
          IF ok
          THEN /\ policy_yaml' = MapInsert(policy_yaml, loc[p].id, loc[p].doc)
               /\ Goto(p, "grant_registry")
               /\ ret' = NoRet
               /\ UNCHANGED loc
          ELSE /\ Returns("grant", loc[p].id, "Err", "save")
               /\ Done(p)
               /\ UNCHANGED policy_yaml
    /\ UNCHANGED <<components, registry, policy_registry, policy_meta, wasm>>

\* step 7: update_policy_registry
GrantRegistry(p) ==
    /\ pc[p] = "grant_registry"
    /\ policy_registry' = MapInsert(policy_registry, loc[p].id,
                                    CreateWasiStateTemplateFromPolicy(loc[p].doc))
    /\ Returns("grant", loc[p].id, "Ok", "")
    /\ Done(p)
    /\ UNCHANGED <<components, registry, policy_yaml, policy_meta, wasm>>

----------------------------------------------------------------------------
(* Specification: tasks run load / unload / uninstall and tool lookups,     *)
(* interleaved at every await point                                         *)

\* mutant: a policy file that does not parse gets the template of an empty policy
RECURSIVE StartupLenient(_, _, _)
StartupLenient(dir, order, st) ==
    IF order = <<>> THEN st
    ELSE LET name == Head(order)
             reg  == RegisterComponent(st.registry, name,
                                       ComponentExportsToJsonSchema(dir.wasm[name]))
             pol  == IF name \in DOMAIN dir.policy_yaml
                     THEN MapInsert(st.policy_registry, name,
                              CreateWasiStateTemplateFromPolicy(dir.policy_yaml[name]))
                     ELSE st.policy_registry
         IN StartupLenient(dir, Tail(order),
                    [components      |-> MapInsert(st.components, name, dir.wasm[name]),
                     registry        |-> reg,
                     policy_registry |-> pol])

\* new_with_policy: the loop over the compiled .wasm files of the plugin
\* directory, in the order the directory listing yields them
RECURSIVE Startup(_, _, _)
Startup(dir, order, st) ==
    IF order = <<>> THEN st
    ELSE LET name == Head(order)
             reg  == RegisterComponent(st.registry, name,
                                       ComponentExportsToJsonSchema(dir.wasm[name]))
             pol  == IF name \in DOMAIN dir.policy_yaml /\ DocParses(dir.policy_yaml[name])
                     THEN MapInsert(st.policy_registry, name,
                              CreateWasiStateTemplateFromPolicy(dir.policy_yaml[name]))
                     ELSE st.policy_registry
         IN Startup(dir, Tail(order),
                    [components      |-> MapInsert(st.components, name, dir.wasm[name]),
                     registry        |-> reg,
                     policy_registry |-> pol])

EmptyDir == [wasm |-> EmptyMap, policy_yaml |-> EmptyMap, policy_meta |-> EmptyMap]

\* a plugin directory left by an earlier run: a.wasm with an attached policy
UsedDir ==
    [wasm        |-> [id \in {"a"} |-> "v1"],
     policy_yaml |-> [id \in {"a"} |-> PolicyFile("file:///p1.yaml")],
     policy_meta |-> [id \in {"a"} |-> [source_uri |-> "file:///p1.yaml"]]]

PluginDirs == {EmptyDir, UsedDir}

\* the listing orders of the .wasm files of a directory
ListingOrders(dir) ==
    {o \in UNION {[1..n -> DOMAIN dir.wasm] : n \in {Cardinality(DOMAIN dir.wasm)}} :
        \A i, j \in DOMAIN o : i # j => o[i] # o[j]}

InitManager(dir, order) ==
    LET st == Startup(dir, order, [components |-> EmptyMap, registry |-> NewRegistry,
                                   policy_registry |-> EmptyMap])
    IN /\ components = st.components
       /\ registry = st.registry
       /\ policy_registry = st.policy_registry
       /\ wasm = dir.wasm
       /\ policy_yaml = dir.policy_yaml
       /\ policy_meta = dir.policy_meta
       /\ pc = [p \in Tasks |-> "idle"]
       /\ loc = [p \in Tasks |-> IdleLoc]
       /\ ret = NoRet
       /\ nops = 0
       /\ last = [id \in Ids |-> [op |-> "none", times |-> 0]]
       /\ base = IF GrantId \in DOMAIN dir.policy_yaml THEN dir.policy_yaml[GrantId] ELSE EmptyDoc
       /\ granted = <<>>
       /\ held = {}
       /\ ip = [p \in Tasks |-> IdleIp]
       /\ request = [p \in Tasks |-> NoReq]
       /\ reply = NoReply

InitFrom(dir, order) == InitManager(dir, order) /\ conv = IdleConv

\* a manager constructed on an empty plugin directory
Init == InitFrom(EmptyDir, <<>>)

\* a manager constructed on a plugin directory of PluginDirs
InitRestart == \E dir \in PluginDirs : \E order \in ListingOrders(dir) : InitFrom(dir, order)

Next ==
    \/ \E p \in Tasks, id \in Ids : LoadAbort(p, id) /\ UNCHANGED <<histVars, lockVars, conv, toolVars>>
    \/ \E p \in Tasks, id \in Ids, bin \in Binaries : LoadRegister(p, id, bin) /\ UNCHANGED <<histVars, lockVars, conv, toolVars>>
    \/ \E p \in Tasks : LoadCopyOk(p) /\ UNCHANGED <<histVars, lockVars, conv, toolVars>>
    \/ \E p \in Tasks : LoadCopyFail(p) /\ UNCHANGED <<histVars, lockVars, conv, toolVars>>
    \/ \E p \in Tasks : LoadRollback(p) /\ UNCHANGED <<histVars, lockVars, conv, toolVars>>
    \/ \E p \in Tasks : LoadInsert(p) /\ UNCHANGED <<histVars, lockVars, conv, toolVars>>
    \/ \E p \in Tasks, id \in Ids : UnloadRemove(p, id, "unload") /\ UNCHANGED <<histVars, lockVars, conv, toolVars>>
    \/ \E p \in Tasks, id \in Ids : UnloadRemove(p, id, "uninstall") /\ UNCHANGED <<histVars, lockVars, conv, toolVars>>
    \/ \E p \in Tasks : UnloadUnregister(p) /\ UNCHANGED <<histVars, lockVars, conv, toolVars>>
    \/ \E p \in Tasks : UninstallRemoveFile(p) /\ UNCHANGED <<histVars, lockVars, conv, toolVars>>
    \/ \E p \in Tasks, name \in ToolNames : LookupTool(p, name) /\ UNCHANGED <<histVars, lockVars, conv, toolVars>>
    \/ \E p \in Tasks : GetComponent(p) /\ UNCHANGED <<histVars, lockVars, conv, toolVars>>

Spec == Init /\ [][Next]_vars

----------------------------------------------------------------------------
(* Specification: all operations, at most MaxOps of them; operations of one  *)
(* kind (lifecycle, policy) on one component id do not overlap               *)

MaxOps == 2

OpClass(op) ==
    IF op \in {"load", "unload", "uninstall"} THEN "lifecycle"
    ELSE IF op \in {"attach", "detach", "grant"} THEN "policy"
    ELSE "read"

NoConflict(p, id, class) ==
    \A q \in Tasks \ {p} :
        pc[q] = "idle" \/ loc[q].id # id \/ OpClass(loc[q].op) # class

Started == nops < MaxOps /\ nops' = nops + 1

Continued == nops' = nops

\* per id, the lifecycle or policy operation that returned successfully last,
\* and whether it did so once or at least twice in a row
Recorded ==
    /\ last' =
          IF OpClass(ret'.op) = "read" \/ ret'.res = "Err" THEN last
          ELSE [last EXCEPT ![ret'.id] =
                    [op |-> ret'.op,
                     times |-> IF last[ret'.id].op = ret'.op THEN 2 ELSE 1]]
    /\ UNCHANGED <<base, granted, lockVars, conv, toolVars>>

\* the grant requests used with the full lifecycle
IsoRequests ==
    { <<"network", [host |-> JStr("h2")]>>,
      <<"storage", [uri |-> JStr("fs:///data"), access |-> JArr(<<JStr("write")>>)]>>,
      <<"network", [host |-> JStr("")]>> }

NextIso ==
    \/ \E p \in Tasks, id \in Ids :
          LoadAbort(p, id) /\ NoConflict(p, id, "lifecycle") /\ Started /\ Recorded
    \/ \E p \in Tasks, id \in Ids, bin \in Binaries :
          LoadRegister(p, id, bin) /\ NoConflict(p, id, "lifecycle") /\ Started /\ Recorded
    \/ \E p \in Tasks : LoadCopyOk(p) /\ Continued /\ Recorded
    \/ \E p \in Tasks : LoadCopyFail(p) /\ Continued /\ Recorded
    \/ \E p \in Tasks : LoadRollback(p) /\ Continued /\ Recorded
    \/ \E p \in Tasks : LoadInsert(p) /\ Continued /\ Recorded
    \/ \E p \in Tasks, id \in Ids :
          UnloadRemove(p, id, "unload") /\ NoConflict(p, id, "lifecycle") /\ Started /\ Recorded
    \/ \E p \in Tasks, id \in Ids :
          UnloadRemove(p, id, "uninstall") /\ NoConflict(p, id, "lifecycle") /\ Started /\ Recorded
    \/ \E p \in Tasks : UnloadUnregister(p) /\ Continued /\ Recorded
    \/ \E p \in Tasks : UninstallRemoveFile(p) /\ Continued /\ Recorded
    \/ \E p \in Tasks, id \in Ids, uri \in PolicyUris :
          AttachBegin(p, id, uri) /\ NoConflict(p, id, "policy") /\ Started /\ Recorded
    \/ \E p \in Tasks : AttachFetch(p) /\ Continued /\ Recorded
    \/ \E p \in Tasks : AttachCopy(p) /\ Continued /\ Recorded
    \/ \E p \in Tasks : AttachMeta(p) /\ Continued /\ Recorded
    \/ \E p \in Tasks : AttachRegistry(p) /\ Continued /\ Recorded
    \/ \E p \in Tasks, id \in Ids :
          DetachRegistry(p, id) /\ NoConflict(p, id, "policy") /\ Started /\ Recorded
    \/ \E p \in Tasks : DetachCheckYaml(p) /\ Continued /\ Recorded
    \/ \E p \in Tasks : DetachRemoveYaml(p) /\ Continued /\ Recorded
    \/ \E p \in Tasks : DetachCheckMeta(p) /\ Continued /\ Recorded
    \/ \E p \in Tasks : DetachRemoveMeta(p) /\ Continued /\ Recorded
    \/ \E p \in Tasks, id \in Ids, req \in IsoRequests :
          GrantBegin(p, id, req[1], req[2]) /\ NoConflict(p, id, "policy") /\ Started /\ Recorded
    \/ \E p \in Tasks : GrantLoad(p) /\ Continued /\ Recorded
    \/ \E p \in Tasks : GrantSave(p) /\ Continued /\ Recorded
    \/ \E p \in Tasks : GrantRegistry(p) /\ Continued /\ Recorded

SpecIso == InitRestart /\ [][NextIso]_vars

----------------------------------------------------------------------------
(* Specification: sequences of at most MaxGrants successful, non-overlapping *)
(* grant_permission calls on the component GrantId, on a manager constructed *)
(* on a plugin directory that holds the component and possibly a policy      *)

MaxGrants == 3

BaseNetworks ==
    { <<>>,
      << [host |-> "h1"] >>,
      << [host |-> "h2"], [host |-> "h1"] >>,
      << [host |-> "h1"], [host |-> "h1"] >> }

BaseStorages ==
    { <<>>,
      << [uri |-> "fs:///data", access |-> <<"read">>] >>,
      << [uri |-> "fs:///tmp", access |-> <<"write", "read">>] >> }

\* the plugin directories: GrantId.wasm, without sidecar or with a policy
\* sidecar written by hand or by an attach
GrantDirs ==
    { [wasm |-> [id \in {GrantId} |-> "v1"], policy_yaml |-> EmptyMap, policy_meta |-> EmptyMap] }
    \cup
    { [wasm        |-> [id \in {GrantId} |-> "v1"],
       policy_yaml |-> [id \in {GrantId} |-> [EmptyDoc EXCEPT !.network = n, !.storage = st]],
       policy_meta |-> EmptyMap] : n \in BaseNetworks, st \in BaseStorages }

GrantRequests ==
    { <<"network", [host |-> JStr("h1")]>>,
      <<"network", [host |-> JStr("h2")]>>,
      <<"storage", [uri |-> JStr("fs:///data"), access |-> JArr(<<JStr("read")>>)]>>,
      <<"storage", [uri |-> JStr("fs:///data"), access |-> JArr(<<JStr("write")>>)]>>,
      <<"storage", [uri |-> JStr("fs:///tmp"), access |-> JArr(<<JStr("read"), JStr("read")>>)]>>,
      <<"storage", [uri |-> JStr("fs:///data"), access |-> JArr(<<>>)]>> }

InitGrant == \E dir \in GrantDirs : \E order \in ListingOrders(dir) : InitFrom(dir, order)

NextGrant ==
    \/ \E p \in Tasks, req \in GrantRequests :
          /\ Len(granted) < MaxGrants
          /\ GrantBegin(p, GrantId, req[1], req[2])
          /\ NoConflict(p, GrantId, "policy")
          /\ UNCHANGED <<histVars, lockVars, conv, toolVars>>
    \/ \E p \in Tasks : GrantLoad(p) /\ UNCHANGED <<histVars, lockVars, conv, toolVars>>
    \/ \E p \in Tasks : GrantSave(p) /\ UNCHANGED <<histVars, lockVars, conv, toolVars>>
    \/ \E p \in Tasks :
          /\ GrantRegistry(p)
          /\ granted' = Append(granted, loc[p].rule)
          /\ UNCHANGED <<nops, last, base, lockVars, conv, toolVars>>

SpecGrant == InitGrant /\ [][NextGrant]_vars

----------------------------------------------------------------------------
(* Specification: attach_policy and grant_permission with well-formed and    *)
(* malformed requests, on loaded and on unknown component ids, at most       *)
(* MaxOps operations                                                         *)

\* grant requests: two that are accepted and one for every way of being rejected
PolicyRequests ==
    { <<"network", [host |-> JStr("h2")]>>,
      <<"storage", [uri |-> JStr("fs:///data"), access |-> JArr(<<JStr("write")>>)]>>,
      <<"environment", [key |-> JStr("HOME")]>>,
      <<"network", [port |-> JNum("80")]>>,
      <<"network", [host |-> JNum("80")]>>,
      <<"network", [host |-> JStr("")]>>,
      <<"storage", [access |-> JArr(<<JStr("read")>>)]>>,
      <<"storage", [uri |-> JNum("1"), access |-> JArr(<<JStr("read")>>)]>>,
      <<"storage", [uri |-> JStr("fs:///data")]>>,
      <<"storage", [uri |-> JStr("fs:///data"), access |-> JStr("read")]>>,
      <<"storage", [uri |-> JStr(""), access |-> JArr(<<JStr("read")>>)]>>,
      <<"storage", [uri |-> JStr("fs:///data"), access |-> JArr(<<>>)]>>,
      <<"storage", [uri |-> JStr("fs:///data"), access |-> JArr(<<JStr("read"), JStr("execute")>>)]>>,
      <<"storage", [uri |-> JStr("fs:///data"), access |-> JArr(<<JNum("1")>>)]>> }

NextPolicy ==
    \/ \E p \in Tasks, id \in Ids, req \in PolicyRequests :
          GrantBegin(p, id, req[1], req[2]) /\ NoConflict(p, id, "policy") /\ Started /\ Recorded
    \/ \E p \in Tasks : GrantLoad(p) /\ Continued /\ Recorded
    \/ \E p \in Tasks : GrantSave(p) /\ Continued /\ Recorded
    \/ \E p \in Tasks : GrantRegistry(p) /\ Continued /\ Recorded
    \/ \E p \in Tasks, id \in Ids, uri \in PolicyUris :
          AttachBegin(p, id, uri) /\ NoConflict(p, id, "policy") /\ Started /\ Recorded
    \/ \E p \in Tasks : AttachFetch(p) /\ Continued /\ Recorded
    \/ \E p \in Tasks : AttachCopy(p) /\ Continued /\ Recorded
    \/ \E p \in Tasks : AttachMeta(p) /\ Continued /\ Recorded
    \/ \E p \in Tasks : AttachRegistry(p) /\ Continued /\ Recorded

SpecPolicy == InitRestart /\ [][NextPolicy]_vars

----------------------------------------------------------------------------
(* Specification: load / unload / uninstall, tool lookups and restarts of    *)
(* the manager on its plugin directory, at most MaxLifeOps operations;       *)
(* lifecycle operations on one component id do not overlap                   *)

MaxLifeOps == 2

\* a plugin directory with two components that both export "run"
TwoDir ==
    [wasm        |-> [id \in {"a", "b"} |-> IF id = "a" THEN "v1" ELSE "v2"],
     policy_yaml |-> [id \in {"b"} |-> PolicyFile("file:///p1.yaml")],
     policy_meta |-> [id \in {"b"} |-> [source_uri |-> "file:///p1.yaml"]]]

\* a plugin directory where the sidecar of a does not parse and the .wasm
\* file of the sidecar of b is gone
BrokenDir ==
    [wasm        |-> [id \in {"a"} |-> "v1"],
     policy_yaml |-> [id \in {"a", "b"} |->
                         IF id = "a" THEN BrokenDoc ELSE PolicyFile("file:///p1.yaml")],
     policy_meta |-> EmptyMap]

LifeDirs == {EmptyDir, UsedDir, TwoDir, BrokenDir}

InitLife == \E dir \in LifeDirs : \E order \in ListingOrders(dir) : InitFrom(dir, order)

\* the plugin directory as it is now
CurrentDir == [wasm |-> wasm, policy_yaml |-> policy_yaml, policy_meta |-> policy_meta]

\* the process ends and a new manager is constructed on the plugin directory
Restart(order) ==
    LET dir == CurrentDir
        st  == Startup(dir, order, [components |-> EmptyMap, registry |-> NewRegistry,
                                    policy_registry |-> EmptyMap])
    IN /\ order \in ListingOrders(dir)
       /\ components' = st.components
       /\ registry' = st.registry
       /\ policy_registry' = st.policy_registry
       /\ pc' = [p \in Tasks |-> "idle"]
       /\ loc' = [p \in Tasks |-> IdleLoc]
       /\ Returns("new", "", "Ok", "")
       /\ UNCHANGED <<wasm, policy_yaml, policy_meta>>

StartedLife == nops < MaxLifeOps /\ nops' = nops + 1

NextLife ==
    \/ \E p \in Tasks, id \in Ids :
          LoadAbort(p, id) /\ NoConflict(p, id, "lifecycle") /\ StartedLife /\ Recorded
    \/ \E p \in Tasks, id \in Ids, bin \in Binaries :
          LoadRegister(p, id, bin) /\ NoConflict(p, id, "lifecycle") /\ StartedLife /\ Recorded
    \/ \E p \in Tasks : LoadCopyOk(p) /\ Continued /\ Recorded
    \/ \E p \in Tasks : LoadCopyFail(p) /\ Continued /\ Recorded
    \/ \E p \in Tasks : LoadRollback(p) /\ Continued /\ Recorded
    \/ \E p \in Tasks : LoadInsert(p) /\ Continued /\ Recorded
    \/ \E p \in Tasks, id \in Ids :
          UnloadRemove(p, id, "unload") /\ NoConflict(p, id, "lifecycle") /\ StartedLife /\ Recorded
    \/ \E p \in Tasks, id \in Ids :
          UnloadRemove(p, id, "uninstall") /\ NoConflict(p, id, "lifecycle") /\ StartedLife /\ Recorded
    \/ \E p \in Tasks : UnloadUnregister(p) /\ Continued /\ Recorded
    \/ \E p \in Tasks : UninstallRemoveFile(p) /\ Continued /\ Recorded
    \/ \E p \in Tasks, name \in ToolNames : LookupTool(p, name) /\ StartedLife /\ Recorded
    \/ \E p \in Tasks : GetComponent(p) /\ Continued /\ Recorded
    \/ \E order \in ListingOrders(CurrentDir) : Restart(order) /\ StartedLife /\ Recorded

SpecLife == InitLife /\ [][NextLife]_vars

----------------------------------------------------------------------------
(* Specification: execute_component_call running concurrently with           *)
(* attach_policy, detach_policy and grant_permission, at most MaxExecOps      *)
(* operations; policy operations on one component id do not overlap           *)

MaxExecOps == 3

\* the grant requests used with Execute: also write access to the plugin directory
ExecRequests ==
    IsoRequests \cup
    { <<"storage", [uri |-> JStr("fs:///plugins"), access |-> JArr(<<JStr("write")>>)]>> }

StartedExec == nops < MaxExecOps /\ nops' = nops + 1

NextExec ==
    \/ \E p \in Tasks, id \in Ids : ExecGetComponent(p, id) /\ StartedExec /\ Recorded
    \/ \E p \in Tasks : ExecState(p) /\ Continued /\ Recorded
    \/ \E p \in Tasks : ExecInstantiate(p) /\ Continued /\ Recorded
    \/ \E p \in Tasks : ExecCall(p) /\ Continued /\ Recorded
    \/ \E p \in Tasks : ExecCancel(p) /\ Continued /\ Recorded
    \/ \E p \in Tasks, id \in Ids, uri \in PolicyUris :
          AttachBegin(p, id, uri) /\ NoConflict(p, id, "policy") /\ StartedExec /\ Recorded
    \/ \E p \in Tasks : AttachFetch(p) /\ Continued /\ Recorded
    \/ \E p \in Tasks : AttachCopy(p) /\ Continued /\ Recorded
    \/ \E p \in Tasks : AttachMeta(p) /\ Continued /\ Recorded
    \/ \E p \in Tasks : AttachRegistry(p) /\ Continued /\ Recorded
    \/ \E p \in Tasks, id \in Ids :
          DetachRegistry(p, id) /\ NoConflict(p, id, "policy") /\ StartedExec /\ Recorded
    \/ \E p \in Tasks : DetachCheckYaml(p) /\ Continued /\ Recorded
    \/ \E p \in Tasks : DetachRemoveYaml(p) /\ Continued /\ Recorded
    \/ \E p \in Tasks : DetachCheckMeta(p) /\ Continued /\ Recorded
    \/ \E p \in Tasks : DetachRemoveMeta(p) /\ Continued /\ Recorded
    \/ \E p \in Tasks, id \in Ids, req \in ExecRequests :
          GrantBegin(p, id, req[1], req[2]) /\ NoConflict(p, id, "policy") /\ StartedExec /\ Recorded
    \/ \E p \in Tasks : GrantLoad(p) /\ Continued /\ Recorded
    \/ \E p \in Tasks : GrantSave(p) /\ Continued /\ Recorded
    \/ \E p \in Tasks : GrantRegistry(p) /\ Continued /\ Recorded

SpecExec == InitRestart /\ [][NextExec]_vars

----------------------------------------------------------------------------
(* Specification: the RwLock guards of the operations. Every operation is    *)
(* the sequence of its lock acquisitions, guard drops and the work between   *)
(* them, in program order; tasks interleave at every instruction             *)

Locks == {"components", "registry", "policy_registry"}

Acq(lock, mode) == [k |-> "acq", lock |-> lock, mode |-> mode, what |-> ""]

Rel(lock) == [k |-> "rel", lock |-> lock, mode |-> "", what |-> ""]

Do(what) == [k |-> "do", lock |-> "", mode |-> "", what |-> what]

\* mutant: the registry guard of the load lives until the function returns
LoadProgramNested ==
    << Do("fetch"), Do("file"), Do("compile"),
       Acq("registry", "write"), Do("register"),
       Do("copy"),
       Acq("components", "write"), Do("insert"), Rel("components"),
       Rel("registry") >>

\* load_component, copy_to succeeds
LoadProgram ==
    << Do("fetch"), Do("file"), Do("compile"),
       Acq("registry", "write"), Do("register"), Rel("registry"),
       Do("copy"),
       Acq("components", "write"), Do("insert"), Rel("components") >>

\* load_component, copy_to fails
LoadCopyFailProgram ==
    << Do("fetch"), Do("file"), Do("compile"),
       Acq("registry", "write"), Do("register"), Rel("registry"),
       Do("copy"),
       Acq("registry", "write"), Do("unregister"), Rel("registry") >>

\* load_component, load_resource / read / Component::new fails
LoadAbortProgram == << Do("fetch"), Do("file"), Do("compile") >>

\* unload_component
UnloadProgram ==
    << Acq("components", "write"), Do("remove"), Rel("components"),
       Acq("registry", "write"), Do("unregister"), Rel("registry") >>

\* uninstall_component
UninstallProgram == UnloadProgram \o << Do("file") >>

\* get_component_id_for_tool
LookupProgram == << Acq("registry", "read"), Do("lookup"), Rel("registry") >>

\* execute_component_call: get_component, get_wasi_state_for_component (the
\* guard policy_registry lives until the function returns, after build()),
\* instantiate_async, call_async
ExecuteProgram ==
    << Acq("components", "read"), Do("lookup"), Rel("components"),
       Acq("policy_registry", "read"), Do("lookup"), Do("build"), Rel("policy_registry"),
       Do("instantiate"), Do("invoke") >>

\* attach_policy
AttachProgram ==
    << Acq("components", "read"), Do("lookup"), Rel("components"),
       Do("fetch"), Do("file"), Do("file"), Do("file"), Do("template"),
       Acq("policy_registry", "write"), Do("insert"), Rel("policy_registry") >>

\* detach_policy
DetachProgram ==
    << Acq("policy_registry", "write"), Do("remove"), Rel("policy_registry"),
       Do("file"), Do("file") >>

\* grant_permission
GrantProgram ==
    << Acq("components", "read"), Do("lookup"), Rel("components"),
       Do("file"), Do("file"), Do("template"),
       Acq("policy_registry", "write"), Do("insert"), Rel("policy_registry") >>

LockOps == {"load", "load_copy_fail", "load_abort", "unload", "uninstall", "lookup",
            "execute", "attach", "detach", "grant"}

Program(op) ==
    CASE op = "load"           -> LoadProgram
      [] op = "load_copy_fail" -> LoadCopyFailProgram
      [] op = "load_abort"     -> LoadAbortProgram
      [] op = "unload"         -> UnloadProgram
      [] op = "uninstall"      -> UninstallProgram
      [] op = "lookup"         -> LookupProgram
      [] op = "execute"        -> ExecuteProgram
      [] op = "attach"         -> AttachProgram
      [] op = "detach"         -> DetachProgram
      [] op = "grant"          -> GrantProgram

\* the instruction a task executes next
Instr(p) == Program(ip[p].op)[ip[p].i]

Running(p) == ip[p] # IdleIp

\* the locks whose guard a task holds
HeldBy(p) == {h.lock : h \in {g \in held : g.task = p}}

\* tokio::sync::RwLock: any number of readers or one writer
CanAcquire(lock, mode) ==
    IF mode = "read"
    THEN \A h \in held : h.lock = lock => h.mode = "read"
    ELSE \A h \in held : h.lock # lock

Advance(p) ==
    ip' = [ip EXCEPT ![p] = IF ip[p].i = Len(Program(ip[p].op))
                            THEN IdleIp
                            ELSE [op |-> ip[p].op, i |-> ip[p].i + 1]]

LockBegin(p, op) ==
    /\ ~Running(p)
    /\ ip' = [ip EXCEPT ![p] = [op |-> op, i |-> 1]]
    /\ UNCHANGED held

LockAcquire(p) ==
    /\ Running(p)
    /\ Instr(p).k = "acq"
    /\ CanAcquire(Instr(p).lock, Instr(p).mode)
    /\ held' = held \cup {[task |-> p, lock |-> Instr(p).lock, mode |-> Instr(p).mode]}
    /\ Advance(p)

LockRelease(p) ==
    /\ Running(p)
    /\ Instr(p).k = "rel"
    /\ held' = {h \in held : ~(h.task = p /\ h.lock = Instr(p).lock)}
    /\ Advance(p)

LockDo(p) ==
    /\ Running(p)
    /\ Instr(p).k = "do"
    /\ Advance(p)
    /\ UNCHANGED held

NextLocks ==
    \/ \E p \in Tasks, op \in LockOps :
          LockBegin(p, op) /\ UNCHANGED <<memVars, polVars, wasm, pc, loc, ret, histVars, conv, toolVars>>
    \/ \E p \in Tasks : LockAcquire(p) /\ UNCHANGED <<memVars, polVars, wasm, pc, loc, ret, histVars, conv, toolVars>>
    \/ \E p \in Tasks : LockRelease(p) /\ UNCHANGED <<memVars, polVars, wasm, pc, loc, ret, histVars, conv, toolVars>>
    \/ \E p \in Tasks : LockDo(p) /\ UNCHANGED <<memVars, polVars, wasm, pc, loc, ret, histVars, conv, toolVars>>

SpecLocks == Init /\ [][NextLocks]_vars

----------------------------------------------------------------------------
(* LifecycleManager::get_component_schema and registry views *)

\* get_component_schema(id): the schema generated from the stored component
GetComponentSchema(id) == ComponentExportsToJsonSchema(components[id])

SchemaToolNames(schema) == [i \in 1..Len(schema.tools) |-> schema.tools[i].name]

\* the entries of the bucket of a tool name that belong to a component
EntriesOf(name, id) ==
    LET bucket == GetToolInfo(registry, name)
    IN {i \in 1..Len(bucket) : bucket[i].component_id = id}

\* every component id named by some entry of the tool index
ToolIndexOwners ==
    UNION { {registry.tool_map[n][i].component_id : i \in 1..Len(registry.tool_map[n])} :
            n \in DOMAIN registry.tool_map }

----------------------------------------------------------------------------
(* Claims *)

\* C1: once no operation is in progress, every component id of the component
\* map has a reverse-index entry listing exactly the tool names of its current
\* schema, and the tool index holds exactly one entry per such name for it.
C1_RegistryMatchesComponents ==
    AllIdle =>
        \A id \in DOMAIN components :
            /\ id \in DOMAIN registry.component_map
            /\ registry.component_map[id] = SchemaToolNames(GetComponentSchema(id))
            /\ \A i \in 1..Len(GetComponentSchema(id).tools) :
                  LET tool == GetComponentSchema(id).tools[i]
                  IN /\ Cardinality(EntriesOf(tool.name, id)) = 1
                     /\ \A k \in EntriesOf(tool.name, id) :
                           registry.tool_map[tool.name][k].schema = tool

\* C2 (as stated): in every reachable state, also between the steps of a Load
\* or an Unload, every entry of the tool index names a component id that is
\* in the component map.
C2_ToolIndexOwnersLoadedAlways == ToolIndexOwners \subseteq DOMAIN components

\* C2 (amended): whenever no Load, Unload or Uninstall is in progress, every
\* entry of the tool index names a component id that is in the component map.
C2_ToolIndexOwnersLoadedWhenIdle == AllIdle => ToolIndexOwners \subseteq DOMAIN components

\* an Unload has returned and other components are still registered
C2_Witness ==
    /\ AllIdle
    /\ ret.op = "unload"
    /\ ToolIndexOwners # {}

\* C3: a reader that reads the registry and then the component map while a
\* Load replaces the id never gets the schema registered by that Load together
\* with another (the old) compiled component; and once all Loads have
\* returned, the registered schema of an id is the schema of its stored
\* component.
C3_SchemaAndComponentAgree ==
    /\ \A q \in Tasks :
          (/\ ret.op = "call"
           /\ ret.res \in Binaries
           /\ pc[q] \in {"load_copy", "load_insert"}
           /\ loc[q].id = ret.id
           /\ \E i \in 1..Len(Exports(loc[q].arg)) : Exports(loc[q].arg)[i].sig = ret.info)
          => ret.res = loc[q].arg
    /\ AllIdle =>
          \A id \in (DOMAIN components) \cap (DOMAIN registry.component_map) :
              registry.component_map[id] = SchemaToolNames(GetComponentSchema(id))

\* the task p takes a step of an operation of one of the kinds ops
StepOf(p, ops) == pc'[p] # pc[p] /\ (loc[p].op \in ops \/ loc'[p].op \in ops)

\* the id has no policy: no registry entry and neither sidecar
NoPolicy(id) ==
    /\ id \notin DOMAIN policy_registry
    /\ id \notin DOMAIN policy_yaml
    /\ id \notin DOMAIN policy_meta

\* C4: with no other lifecycle operation on the same id in progress: after
\* Load returns (id, New) the id is in the component map and <id>.wasm
\* exists; after Unload(id) the id is absent from the component map and from
\* the registry, and no step of Unload touches the plugin directory's .wasm
\* files; after Uninstall(id) returns Ok the id is absent from the component
\* map and the registry and <id>.wasm no longer exists.
C4_LifecyclePostconditions ==
    /\ []((ret.op = "load" /\ ret.res = "New") =>
              /\ ret.id \in DOMAIN components
              /\ ret.id \in DOMAIN wasm)
    /\ [](ret.op = "unload" =>
              /\ ret.id \notin DOMAIN components
              /\ ret.id \notin DOMAIN registry.component_map
              /\ ret.id \notin ToolIndexOwners)
    /\ [][\A p \in Tasks : StepOf(p, {"unload"}) => wasm' = wasm]_vars
    /\ []((ret.op = "uninstall" /\ ret.res = "Ok") =>
              /\ ret.id \notin DOMAIN components
              /\ ret.id \notin DOMAIN registry.component_map
              /\ ret.id \notin ToolIndexOwners
              /\ ret.id \notin DOMAIN wasm)

\* an Uninstall of a component that was loaded before has returned Ok while
\* another component stays loaded
C4_Witness ==
    /\ ret.op = "uninstall"
    /\ ret.res = "Ok"
    /\ DOMAIN components # {}
    /\ DOMAIN components = DOMAIN wasm

\* C5: after attach_policy(id, uri) returns Ok, with no concurrent policy
\* operation on id, <id>.policy.yaml and <id>.policy.meta.json exist, the
\* metadata records source_uri = uri, get_policy_info(id).source_uri = uri,
\* and the policy registry has an entry for id.
C5_AttachPostcondition ==
    (ret.op = "attach" /\ ret.res = "Ok") =>
        /\ ret.id \in DOMAIN policy_yaml
        /\ ret.id \in DOMAIN policy_meta
        /\ policy_meta[ret.id].source_uri = ret.info
        /\ GetPolicyInfo(ret.id).found
        /\ GetPolicyInfo(ret.id).source_uri = ret.info
        /\ ret.id \in DOMAIN policy_registry

\* a policy was attached over the policy the component already had from
\* another uri
C5_Witness ==
    /\ ret.op = "attach"
    /\ ret.res = "Ok"
    /\ ret.info = "file:///p2.yaml"
    /\ ret.id = "a"
    /\ policy_yaml["a"] = PolicyFile("file:///p2.yaml")

C7_LoadAfterUninstallHasNoPolicy ==
    [][(/\ ret'.op = "load"
        /\ ret'.res \in {"New", "Replaced"}
        /\ last[ret'.id].op = "uninstall"
        /\ \A q \in Tasks : loc[q].id = ret'.id => OpClass(loc[q].op) # "policy")
       => /\ ret'.id \notin DOMAIN policy_registry'
          /\ ret'.id \notin DOMAIN policy_yaml']_vars

\* C8: no step of an Unload or of a Load changes the policy registry or a
\* policy sidecar, so a component with an attached policy that is reloaded,
\* or unloaded and loaded again, has the same template as before.
C8_LoadUnloadKeepPolicy ==
    [][\A p \in Tasks : StepOf(p, {"load", "unload"}) => UNCHANGED polVars]_vars

\* a Load has replaced a component that has a policy attached
C8_Witness ==
    /\ ret.op = "load"
    /\ ret.res = "Replaced"
    /\ ret.id \in DOMAIN policy_registry
    /\ ret.id \in DOMAIN policy_yaml
    /\ ret.id \in DOMAIN policy_meta

\* the policy sidecar of GrantId, the empty document if there is none
GrantDoc == IF GrantId \in DOMAIN policy_yaml THEN policy_yaml[GrantId] ELSE EmptyDoc

HostCount(doc, host) == Cardinality({i \in 1..Len(doc.network) : doc.network[i].host = host})

UriCount(doc, uri) == Cardinality({i \in 1..Len(doc.storage) : doc.storage[i].uri = uri})

\* the hosts and uris of the model
Hosts == {"h1", "h2"}

Uris == {"fs:///data", "fs:///tmp"}

GrantedHosts == {granted[i].host : i \in {j \in 1..Len(granted) : granted[j].kind = "network"}}

\* the access values granted for a uri
GrantedAccess(uri) ==
    UNION { {granted[i].access[k] : k \in 1..Len(granted[i].access)} :
            i \in {j \in 1..Len(granted) : granted[j].kind = "storage" /\ granted[j].uri = uri} }

\* the access values a document lists for a uri
DocAccess(doc, uri) ==
    UNION { {doc.storage[i].access[k] : k \in 1..Len(doc.storage[i].access)} :
            i \in {j \in 1..Len(doc.storage) : doc.storage[j].uri = uri} }

\* a save that writes the grant of the rule that was granted last, once more
RepeatedNetworkSave(p) ==
    /\ pc[p] = "grant_save"
    /\ pc'[p] = "grant_registry"
    /\ granted # <<>>
    /\ granted[Len(granted)] = loc[p].rule
    /\ loc[p].rule.kind = "network"

\* C9 (as stated): after any sequence of successful, non-overlapping grants
\* on one component, every host appears at most once under network.allow of
\* the sidecar, a host is present iff it was granted or was already in the
\* policy, and granting the same host twice in a row leaves the policy as
\* granting it once does.
C9_HostsAtMostOnce ==
    /\ []((AllIdle /\ granted # <<>>) =>
             \A h \in Hosts :
                /\ HostCount(GrantDoc, h) <= 1
                /\ HostCount(GrantDoc, h) >= 1
                      <=> (h \in GrantedHosts \/ HostCount(base, h) >= 1))
    /\ [][\A p \in Tasks : RepeatedNetworkSave(p) => policy_yaml' = policy_yaml]_vars

\* C9 (amended): after any sequence of successful, non-overlapping grants on
\* one component, a host that was not in the policy before appears once if it
\* was granted and not at all otherwise, a host that was in the policy before
\* appears exactly as often as before, and granting the same host twice in a
\* row leaves the policy as granting it once does.
C9_GrantsAddNoDuplicateHost ==
    /\ []((AllIdle /\ granted # <<>>) =>
             \A h \in Hosts :
                HostCount(GrantDoc, h) =
                    IF HostCount(base, h) >= 1 THEN HostCount(base, h)
                    ELSE IF h \in GrantedHosts THEN 1 ELSE 0)
    /\ [][\A p \in Tasks : RepeatedNetworkSave(p) => policy_yaml' = policy_yaml]_vars

\* the same host, absent from the policy before, was granted twice in a row
C9_Witness ==
    /\ AllIdle
    /\ ret.op = "grant"
    /\ ret.res = "Ok"
    /\ HostCount(base, "h2") = 0
    /\ Len(granted) >= 2
    /\ granted[Len(granted)].kind = "network"
    /\ granted[Len(granted)].host = "h2"
    /\ granted[Len(granted) - 1] = granted[Len(granted)]

\* a policy whose storage entries have distinct uris and no repeated access
StorageClean(doc) ==
    /\ \A u \in Uris : UriCount(doc, u) <= 1
    /\ \A i \in 1..Len(doc.storage) :
          \A k, l \in 1..Len(doc.storage[i].access) :
              k # l => doc.storage[i].access[k] # doc.storage[i].access[l]

\* C10: after any sequence of successful, non-overlapping grants on one
\* component whose policy had at most one entry per uri and no repeated access
\* value, each granted uri is in exactly one storage.allow entry, the access
\* values of that entry are those granted for the uri and those already in the
\* policy, and no entry repeats an access value.
C10_StorageAccessIsUnion ==
    (AllIdle /\ granted # <<>> /\ StorageClean(base)) =>
        /\ \A u \in Uris :
              /\ UriCount(GrantDoc, u) =
                    IF GrantedAccess(u) # {} \/ UriCount(base, u) = 1 THEN 1 ELSE 0
              /\ DocAccess(GrantDoc, u) = GrantedAccess(u) \cup DocAccess(base, u)
        /\ StorageClean(GrantDoc)

\* the data of the manager and the plugin directory
dataVars == <<components, registry, policy_registry, wasm, policy_yaml, policy_meta>>

\* a JSON array has an element that is not the string "read" or "write"
HasBadAccess(arr) == \E i \in 1..Len(arr) : arr[i].t # "str" \/ arr[i].s \notin {"read", "write"}

\* the requests that the grant contract calls invalid
RejectedRequest(id, permission_type, details) ==
    \/ id \notin DOMAIN components
    \/ permission_type \notin {"network", "storage"}
    \/ /\ permission_type = "network"
       /\ \/ "host" \notin DOMAIN details
          \/ details["host"].t # "str"
          \/ details["host"].s = ""
    \/ /\ permission_type = "storage"
       /\ \/ "uri" \notin DOMAIN details
          \/ details["uri"].t # "str"
          \/ details["uri"].s = ""
          \/ "access" \notin DOMAIN details
          \/ details["access"].t # "arr"
          \/ details["access"].a = <<>>
          \/ HasBadAccess(details["access"].a)

\* C11: grant_permission fails, without entering the load/save steps and
\* without changing the component map, the registry, the policy registry or
\* any file of the plugin directory, when the component id is not in the
\* component map, the permission type is neither "network" nor "storage", a
\* required field is missing or of the wrong type, the host or uri is empty,
\* the access list is empty, or an access value is not "read" or "write".
C11_InvalidGrantChangesNothing ==
    [][\A p \in Tasks, id \in Ids, req \in PolicyRequests :
          (GrantBegin(p, id, req[1], req[2]) /\ RejectedRequest(id, req[1], req[2]))
          => /\ ret'.op = "grant"
             /\ ret'.id = id
             /\ ret'.res = "Err"
             /\ pc' = pc
             /\ UNCHANGED dataVars]_vars

\* a grant was rejected by validation on a loaded component that has a sidecar
C11_Witness ==
    /\ ret.op = "grant"
    /\ ret.res = "Err"
    /\ ret.info = "validate"
    /\ ret.id \in DOMAIN components
    /\ ret.id \in DOMAIN policy_yaml

\* C12: attach_policy on a component id that is not in the component map
\* fails with "Component not found" without reaching the fetch of the policy
\* URI, writes no sidecar and leaves the policy registry unchanged.
C12_AttachUnknownComponent ==
    [][\A p \in Tasks, id \in Ids, uri \in PolicyUris :
          (AttachBegin(p, id, uri) /\ id \notin DOMAIN components)
          => /\ ret'.op = "attach"
             /\ ret'.id = id
             /\ ret'.res = "Err"
             /\ ret'.info = "Component not found"
             /\ pc' = pc
             /\ UNCHANGED dataVars]_vars

\* attach_policy has failed on an id that is not loaded although its .wasm
\* file or a policy of another component is there
C12_Witness ==
    /\ ret.op = "attach"
    /\ ret.res = "Err"
    /\ ret.info = "Component not found"
    /\ ret.id \notin DOMAIN components
    /\ policy_registry # EmptyMap

\* the names of the functions a binary exports
ExportNames(bin) == {Exports(bin)[i].name : i \in 1..Len(Exports(bin))}

\* the component ids of the entries of a bucket
BucketIds(bucket) == {bucket[i].component_id : i \in 1..Len(bucket)}

\* a bucket without the entries of a component
WithoutOwner(bucket, id) == SelectSeq(bucket, LAMBDA e : e.component_id # id)

\* a step in which get_component_id_for_tool(name) of task p returns an id
Resolved(p, name) ==
    pc[p] = "idle" /\ pc'[p] = "call_component" /\ loc'[p].arg = name

\* a step in which get_component_id_for_tool(name) returns an error
NotResolved(name) ==
    nops' # nops /\ ret'.op = "call" /\ ret'.res = "Err" /\ ret'.tool = name

\* a step in which task p runs the unregister_component of an unload
Unregistered(p) ==
    pc[p] = "unload_unregister" /\ pc'[p] # pc[p] /\ ret'.op # "new"

\* x and y were loaded from the plugin directory, both export name, and the
\* one operation since then was a successful unload of y
LoadedBothUnloadedOne(x, y, name) ==
    /\ x # y
    /\ AllIdle
    /\ nops = 1
    /\ last[y] = [op |-> "unload", times |-> 1]
    /\ last[x].op = "none"
    /\ {x, y} \subseteq DOMAIN wasm
    /\ x \in DOMAIN components
    /\ name \in ExportNames(wasm[x]) \cap ExportNames(wasm[y])

\* C13: get_component_id_for_tool(name) resolves to the owning component id
\* exactly when the bucket of name has one entry; with more than one entry it
\* fails with a message that lists every candidate id; with no bucket it fails
\* with "Tool not found". Unregistering one of two components that share a
\* tool name leaves exactly the entry of the other, so that after two
\* components exporting the same name were loaded and one was unloaded the
\* name resolves to the remaining one.
C13_LookupByBucketSize ==
    [][/\ \A name \in ToolNames :
          /\ \A p \in Tasks :
                Resolved(p, name) =>
                   /\ name \in DOMAIN registry.tool_map
                   /\ Len(registry.tool_map[name]) = 1
                   /\ loc'[p].id = registry.tool_map[name][1].component_id
          /\ NotResolved(name) =>
                /\ \A n \in DOMAIN registry.tool_map : registry.tool_map[n] # <<>>
                /\ IF name \in DOMAIN registry.tool_map
                   THEN /\ Len(registry.tool_map[name]) > 1
                        /\ ret'.info = "Multiple components found for tool"
                        /\ Len(ret'.ids) = Len(registry.tool_map[name])
                        /\ BucketIds(registry.tool_map[name])
                              = {ret'.ids[i] : i \in 1..Len(ret'.ids)}
                   ELSE ret'.info = "Tool not found"
          /\ \A x, y \in Ids :
                ( /\ LoadedBothUnloadedOne(x, y, name)
                  /\ NotResolved(name) \/ \E p \in Tasks : Resolved(p, name) )
                => \E p \in Tasks : Resolved(p, name) /\ loc'[p].id = x
       /\ \A p \in Tasks :
             Unregistered(p) =>
                \A name \in ToolNames :
                   GetToolInfo(registry', name)
                      = WithoutOwner(GetToolInfo(registry, name), loc[p].id)]_vars

\* both a and b were loaded from the plugin directory and export "run"; b was
\* unloaded, and the call of "run" that followed got the component a
C13_Witness ==
    /\ nops = 2
    /\ last["b"] = [op |-> "unload", times |-> 1]
    /\ last["a"].op = "none"
    /\ "b" \in DOMAIN wasm
    /\ "run" \in ExportNames(wasm["b"])
    /\ ret.op = "call"
    /\ ret.id = "a"
    /\ ret.res = "v1"

\* the number of entries of a component in the bucket of a tool name
EntryCount(reg, name, id) ==
    Len(SelectSeq(GetToolInfo(reg, name), LAMBDA e : e.component_id = id))

\* a step in which task p runs the registry block of a load
LoadRegistered(p) == pc[p] = "idle" /\ pc'[p] = "load_copy"

\* a step in which the load of task p returns successfully
LoadReturned(p) == pc[p] = "load_insert" /\ pc'[p] # pc[p] /\ ret'.op # "new"

\* C14: a successful Load returns Replaced iff the component map already held
\* an entry for the id, and New otherwise; when it returns, the id is a key of
\* the component map and each tool name of its binary has exactly one
\* registry entry for the id (and no other name has one), however many loads
\* of the id came before; the registry block of a load leaves the entries of
\* the other components as they were, so a tool that was unambiguous before a
\* reload is not ambiguous after it.
C14_ReloadKeepsOneRegistration ==
    [][\A p \in Tasks :
          /\ LoadReturned(p) =>
                /\ ret'.op = "load" /\ ret'.id = loc[p].id
                /\ ret'.res = IF loc[p].id \in DOMAIN components THEN "Replaced" ELSE "New"
                /\ loc[p].id \in DOMAIN components'
                /\ \A name \in ToolNames :
                      EntryCount(registry', name, loc[p].id)
                         = IF name \in ExportNames(components'[loc[p].id]) THEN 1 ELSE 0
          /\ LoadRegistered(p) =>
                \A name \in ToolNames :
                   /\ WithoutOwner(GetToolInfo(registry', name), loc'[p].id)
                         = WithoutOwner(GetToolInfo(registry, name), loc'[p].id)
                   /\ EntryCount(registry', name, loc'[p].id) <= 1
                   /\ ( /\ Len(GetToolInfo(registry, name)) = 1
                        /\ EntryCount(registry, name, loc'[p].id) = 1 )
                         => Len(GetToolInfo(registry', name)) <= 1]_vars

\* the second successful load in a row of a has returned Replaced, and its
\* tool run is registered once
C14_Witness ==
    /\ ret.op = "load"
    /\ ret.id = "a"
    /\ ret.res = "Replaced"
    /\ last["a"] = [op |-> "load", times |-> 2]
    /\ "a" \in DOMAIN components
    /\ Len(GetToolInfo(registry, "run")) = 1

\* a step in which a load returns the error of the fetch, the read or the compile
LoadAborted ==
    nops' # nops /\ ret'.op = "load" /\ ret'.res = "Err" /\ ret'.info = "fetch"

\* C15: a Load that fails while resolving the URI, fetching, reading the file
\* or compiling the component returns an error and leaves the component map,
\* the registry, the policy registry and the plugin directory as they were.
C15_FailedFetchChangesNothing ==
    [][LoadAborted => (pc' = pc /\ UNCHANGED dataVars)]_vars

\* the reload of a loaded, registered component with a policy failed in the
\* fetch; the component is still loaded and registered
C15_Witness ==
    /\ ret.op = "load"
    /\ ret.res = "Err"
    /\ ret.info = "fetch"
    /\ nops = 1
    /\ ret.id \in DOMAIN components
    /\ ret.id \in DOMAIN registry.component_map
    /\ ret.id \in DOMAIN policy_registry

\* a step of the load of task p that comes before the component-map insertion
LoadStepBeforeInsert(p) ==
    /\ \/ pc[p] = "idle" /\ pc'[p] = "load_copy"
       \/ pc[p] \in {"load_copy", "load_rollback"} /\ pc'[p] # pc[p]
    /\ ret'.op # "new"

\* a step in which the load of task p returns the error of the copy
LoadRolledBack(p) == pc[p] = "load_rollback" /\ pc'[p] # pc[p] /\ ret'.op # "new"

\* C16: if copying or renaming the fetched file into the plugin directory
\* fails during Load of id, then when Load returns its error the registry has
\* no entry for id, neither in the tool index nor in the reverse index, and no
\* step of the Load has changed the component map.
C16_CopyFailureUnregisters ==
    [][\A p \in Tasks :
          /\ LoadStepBeforeInsert(p) => components' = components
          /\ LoadRolledBack(p) =>
                /\ ret'.op = "load" /\ ret'.id = loc[p].id /\ ret'.res = "Err"
                /\ loc[p].id \notin DOMAIN registry'.component_map
                /\ \A name \in ToolNames : EntryCount(registry', name, loc[p].id) = 0]_vars

\* the reload of a loaded component failed in the copy: the component is
\* still in the component map and the registry has no entry for it
C16_Witness ==
    /\ ret.op = "load"
    /\ ret.res = "Err"
    /\ ret.info = "copy"
    /\ nops = 1
    /\ ret.id \in DOMAIN components
    /\ ret.id \notin DOMAIN registry.component_map
    /\ ret.id \notin ToolIndexOwners

\* the components of the plugin directory whose co-located policy exists and parses
WithParsedPolicy ==
    {id \in DOMAIN wasm : id \in DOMAIN policy_yaml /\ DocParses(policy_yaml[id])}

ExecRead(p) == pc[p] = "exec_state" /\ pc'[p] = "exec_instantiate"

\* the Execute of task p has built its sandbox and has not returned
InFlight(p) == pc[p] \in {"exec_instantiate", "exec_call"}

\* a step in which the attach or grant of task p writes the policy registry and returns
PolicyWritten(p) == pc[p] \in {"attach_registry", "grant_registry"} /\ pc'[p] = "idle"

\* a step in which the detach of task p removes the entry of the policy registry
PolicyRemoved(p) == pc[p] = "idle" /\ pc'[p] = "detach_check_yaml"

\* C18: an Execute reads the policy registry once and builds its sandbox from
\* the template it finds there, or from the default template if there is
\* none; whatever attach_policy, detach_policy or grant_permission does
\* afterwards, the sandbox of the call in flight stays as built; attach and
\* grant return with their template in the policy registry and detach leaves
\* none, so the read of the next Execute finds what was written last.
C18_ExecuteUsesTemplateReadOnce ==
    [][\A p \in Tasks :
          /\ ExecRead(p) =>
                loc'[p].state =
                   << Build(IF loc[p].id \in DOMAIN policy_registry
                            THEN policy_registry[loc[p].id]
                            ELSE DefaultTemplate) >>
          /\ (InFlight(p) /\ pc'[p] \in {"exec_instantiate", "exec_call"}) =>
                (loc'[p].state = loc[p].state /\ loc'[p].id = loc[p].id)
          /\ PolicyWritten(p) =>
                /\ ret'.res = "Ok"
                /\ loc[p].id \in DOMAIN policy_registry'
                /\ \A q \in Tasks \ {p} :
                      InFlight(q) => (pc'[q] = pc[q] /\ loc'[q].state = loc[q].state)
          /\ PolicyRemoved(p) =>
                /\ loc'[p].id \notin DOMAIN policy_registry'
                /\ \A q \in Tasks \ {p} :
                      InFlight(q) => (pc'[q] = pc[q] /\ loc'[q].state = loc[q].state)]_vars

\* an attach_policy on a component completed while a call of it was in
\* flight: that call still has the sandbox of the old template, and a call
\* started afterwards has the sandbox of the new one
C18_Witness ==
    \E p, q \in Tasks :
       /\ pc[p] = "exec_call"
       /\ pc[q] = "exec_call"
       /\ loc[p].id = loc[q].id
       /\ last[loc[p].id].op = "attach"
       /\ loc[p].state # << Build(TemplateFor(loc[p].id)) >>
       /\ loc[q].state = << Build(TemplateFor(loc[q].id)) >>

\* the next instruction of a task can be executed now
CanStep(p) ==
    /\ Running(p)
    /\ Instr(p).k = "acq" => CanAcquire(Instr(p).lock, Instr(p).mode)

\* the work that must not run under a lock: network fetch, compilation,
\* engine instantiation and invocation
Unlocked == {"fetch", "compile", "instantiate", "invoke"}

\* C19: no operation acquires the component-map lock while it holds the
\* registry or the policy-registry lock, nor the registry lock while it holds
\* the policy-registry lock (no operation acquires a lock while it holds any);
\* no lock is held across a fetch, a compilation, an instantiation or an
\* invocation; and whenever some operation of Load, Unload, Uninstall,
\* Execute, tool lookup, AttachPolicy, DetachPolicy and GrantPermission is in
\* progress, one of them can take its next step: there is no deadlock.
C19_LockOrderAndNoDeadlock ==
    /\ \A p \in Tasks :
          Running(p) =>
             /\ (Instr(p).k = "acq" /\ Instr(p).lock = "components")
                   => HeldBy(p) \cap {"registry", "policy_registry"} = {}
             /\ (Instr(p).k = "acq" /\ Instr(p).lock = "registry")
                   => "policy_registry" \notin HeldBy(p)
             /\ Instr(p).k = "acq" => HeldBy(p) = {}
             /\ (Instr(p).k = "do" /\ Instr(p).what \in Unlocked) => HeldBy(p) = {}
    /\ \A p \in Tasks : ~Running(p) => HeldBy(p) = {}
    /\ (\E p \in Tasks : Running(p)) => (\E p \in Tasks : CanStep(p))

\* a task waits for the write lock of the policy registry, which another task
\* holds for reading
C19_Witness ==
    \E p, q \in Tasks :
       /\ p # q
       /\ Running(p)
       /\ Running(q)
       /\ Instr(p) = Acq("policy_registry", "write")
       /\ ~CanStep(p)
       /\ [task |-> q, lock |-> "policy_registry", mode |-> "read"] \in held

\* C20: in Execute the read locks of the component map and of the policy
\* registry are held only for the lookup and the clone of the handle: the
\* build of the sandbox from the template, with the opening of its preopened
\* directories, the instantiation and the invocation run with no lock held.
C20_BuildRunsWithoutLock ==
    \A p \in Tasks :
       ( /\ Running(p)
         /\ ip[p].op = "execute"
         /\ Instr(p).k = "do"
         /\ Instr(p).what \in {"build", "instantiate", "invoke"} )
       => HeldBy(p) = {}

\* a step of the Execute of task p
ExecStep(p) ==
    \/ pc[p] = "idle" /\ pc'[p] = "exec_state"
    \/ pc[p] \in {"exec_state", "exec_instantiate", "exec_call"} /\ pc'[p] # pc[p]

\* a step in which an Execute fails with "Component not found"
ExecNotFound == nops' # nops /\ ret'.op = "execute" /\ pc' = pc

\* C21: no step of an Execute, whether the call succeeds, fails or is
\* cancelled, changes the component map, the registry, the policy registry or
\* a file of the plugin directory, and no step of it changes the sandbox or
\* the position of another call.
C21_ExecuteChangesNothing ==
    [][/\ \A p \in Tasks :
             ExecStep(p) =>
                /\ UNCHANGED dataVars
                /\ \A q \in Tasks \ {p} : pc'[q] = pc[q] /\ loc'[q] = loc[q]
       /\ ExecNotFound => UNCHANGED dataVars]_vars

\* the part of C21 that holds: the manager's own state and the sandboxes of
\* the other calls
C21_ExecuteKeepsManagerState ==
    [][/\ \A p \in Tasks :
             ExecStep(p) =>
                /\ UNCHANGED <<components, registry, policy_registry, policy_yaml, policy_meta>>
                /\ \A q \in Tasks \ {p} : pc'[q] = pc[q] /\ loc'[q] = loc[q]
       /\ ExecNotFound => UNCHANGED dataVars]_vars

----------------------------------------------------------------------------
(* component2json: typed values and JSON values *)

\* wasmtime::component::Val; every kind uses the same node shape:
\* k the kind, n the number, s the string (text, tag, case), names the field
\* or flag names, items the elements, the fields or the optional payload
Val(k, n, s, names, items) ==
    [k |-> k, n |-> n, s |-> s, names |-> names, items |-> items]

VBool(b) == Val("Bool", IF b THEN 1 ELSE 0, "", <<>>, <<>>)
VInt(k, n) == Val(k, n, "", <<>>, <<>>)
VFloat(k, s, n) == Val(k, n, s, <<>>, <<>>)
VChar(c) == Val("Char", 0, c, <<>>, <<>>)
VString(s) == Val("String", 0, s, <<>>, <<>>)
VList(items) == Val("List", 0, "", <<>>, items)
VRecord(names, items) == Val("Record", 0, "", names, items)
VTuple(items) == Val("Tuple", 0, "", <<>>, items)
VVariant(tag, payload) == Val("Variant", 0, tag, <<>>, payload)
VEnum(s) == Val("Enum", 0, s, <<>>, <<>>)
VOption(payload) == Val("Option", 0, "", <<>>, payload)
VResult(tag, payload) == Val("Result", 0, tag, <<>>, payload)
VFlags(names) == Val("Flags", 0, "", names, <<>>)
VResource(s) == Val("Resource", 0, s, <<>>, <<>>)

NoVal == Val("none", 0, "", <<>>, <<>>)

SignedKinds == {"S8", "S16", "S32", "S64"}
UnsignedKinds == {"U8", "U16", "U32", "U64"}
IntKinds == SignedKinds \cup UnsignedKinds
FloatKinds == {"Float32", "Float64"}

\* i64::MAX and u64::MAX, with the 64-bit width scaled to 4 bits
I64Max == 2^3 - 1
U64Max == 2^4 - 1

\* f64::is_finite on the floats of the model, which are named by their
\* Display form; "int" names the float that equals the integer n
IsFinite(s) == s \notin {"inf", "-inf", "NaN"}

\* serde_json::Value; t is the kind, keys and vals are the members of an
\* object in the iteration order of its Map, vals the elements of an array
Json(t, n, s, keys, vals) ==
    [t |-> t, n |-> n, s |-> s, keys |-> keys, vals |-> vals]

JNull == Json("null", 0, "", <<>>, <<>>)
JBool(b) == Json("bool", IF b THEN 1 ELSE 0, "", <<>>, <<>>)
JNumber(n) == Json("int", n, "", <<>>, <<>>)
JFloat(s, n) == Json("float", n, s, <<>>, <<>>)
JString(s) == Json("string", 0, s, <<>>, <<>>)
JArray(vals) == Json("array", 0, "", <<>>, vals)
JObject(keys, vals) == Json("object", 0, "", keys, vals)

EmptyObject == JObject(<<>>, <<>>)

\* the keys of the model in the order of str::cmp (byte order)
KeyOrder ==
    <<"__enum", "__flags", "__option", "__resource", "__result", "__tuple", "__variant",
      "a", "b", "err", "ok", "tag", "val", "val0", "val1", "val2", "val3", "val4">>

KeyRank(k) == CHOOSE i \in 1..Len(KeyOrder) : KeyOrder[i] = k

HasKey(obj, k) == \E i \in 1..Len(obj.keys) : obj.keys[i] = k

IndexOf(obj, k) == CHOOSE i \in 1..Len(obj.keys) : obj.keys[i] = k

\* Map::get
Get(obj, k) == obj.vals[IndexOf(obj, k)]

InsertAt(seq, i, x) == SubSeq(seq, 1, i - 1) \o <<x>> \o SubSeq(seq, i, Len(seq))

\* Map::insert: serde_json::Map is a BTreeMap, or an IndexMap when the build
\* enables the feature preserve_order (po); a key that is present keeps its place
ObjectInsert(obj, k, v, po) ==
    IF HasKey(obj, k)
    THEN [obj EXCEPT !.vals = [@ EXCEPT ![IndexOf(obj, k)] = v]]
    ELSE IF po
    THEN [obj EXCEPT !.keys = Append(@, k), !.vals = Append(@, v)]
    ELSE LET i == 1 + Cardinality({j \in 1..Len(obj.keys) : KeyRank(obj.keys[j]) < KeyRank(k)})
         IN [obj EXCEPT !.keys = InsertAt(@, i, k), !.vals = InsertAt(@, i, v)]

\* a loop of Map::insert, and the json! macro on an object literal
RECURSIVE InsertAll(_, _, _, _)
InsertAll(obj, keys, vals, po) ==
    IF keys = <<>> THEN obj
    ELSE InsertAll(ObjectInsert(obj, Head(keys), Head(vals), po), Tail(keys), Tail(vals), po)

\* PartialEq of serde_json::Value: the members of two objects are compared by
\* key, in any order; an integer number equals no float number
RECURSIVE JsonEq(_, _)
JsonEq(a, b) ==
    /\ a.t = b.t
    /\ a.n = b.n
    /\ a.s = b.s
    /\ Len(a.vals) = Len(b.vals)
    /\ IF a.t = "object"
       THEN \A i \in 1..Len(a.keys) :
               /\ HasKey(b, a.keys[i])
               /\ JsonEq(a.vals[i], Get(b, a.keys[i]))
       ELSE \A i \in 1..Len(a.vals) : JsonEq(a.vals[i], b.vals[i])

(* val_to_json *)
RECURSIVE ValToJson(_, _)
ValToJson(v, po) ==
    LET items == [i \in 1..Len(v.items) |-> ValToJson(v.items[i], po)]
    IN CASE v.k = "Bool" -> JBool(v.n = 1)
         [] v.k \in IntKinds -> JNumber(v.n)
         [] v.k \in FloatKinds -> IF IsFinite(v.s) THEN JFloat(v.s, v.n) ELSE JString(v.s)
         [] v.k \in {"Char", "String"} -> JString(v.s)
         [] v.k = "List" -> JArray(items)
         [] v.k = "Record" -> InsertAll(EmptyObject, v.names, items, po)
         [] v.k = "Tuple" -> InsertAll(EmptyObject, <<"__tuple">>, <<JArray(items)>>, po)
         [] v.k = "Variant" ->
               IF v.items = <<>>
               THEN InsertAll(EmptyObject, <<"__variant">>, <<JString(v.s)>>, po)
               ELSE InsertAll(EmptyObject, <<"__variant", "val">>, <<JString(v.s), items[1]>>, po)
         [] v.k = "Enum" -> InsertAll(EmptyObject, <<"__enum">>, <<JString(v.s)>>, po)
         [] v.k = "Option" ->
               IF v.items = <<>>
               THEN InsertAll(EmptyObject, <<"__option">>, <<JString("None")>>, po)
               ELSE InsertAll(EmptyObject, <<"__option", "val">>, <<JString("Some"), items[1]>>, po)
         [] v.k = "Result" ->
               InsertAll(EmptyObject, <<"__result", "val">>,
                         <<JString(v.s), IF v.items = <<>> THEN JNull ELSE items[1]>>, po)
         [] v.k = "Flags" ->
               InsertAll(EmptyObject, <<"__flags">>,
                         <<InsertAll(EmptyObject, v.names,
                                     [i \in 1..Len(v.names) |-> JBool(TRUE)], po)>>, po)
         [] v.k = "Resource" -> InsertAll(EmptyObject, <<"__resource">>, <<JString(v.s)>>, po)

\* Result<Val, ValError> and Result<Vec<Val>, ValError>
ValOk(vs) == [ok |-> TRUE, err |-> "", vs |-> vs]
ValErr(e) == [ok |-> FALSE, err |-> e, vs |-> <<>>]

\* variant: every key of a __flags object becomes a flag
EnabledFlagsAll(keys, vals) == keys

\* the keys of a __flags object whose value is true, in iteration order
RECURSIVE EnabledFlags(_, _)
EnabledFlags(keys, vals) ==
    IF keys = <<>> THEN <<>>
    ELSE (IF Head(vals) = JBool(TRUE) THEN <<Head(keys)>> ELSE <<>>)
         \o EnabledFlags(Tail(keys), Tail(vals))

(* json_to_val, object_to_val and the loops `for item in .. { json_to_val(item)? }` *)
RECURSIVE JsonToVal(_)
RECURSIVE ParseAll(_)
RECURSIVE ParseAllSkipNull(_)
RECURSIVE ObjectToVal(_)

\* variant: a null item is skipped
ParseAllSkipNull(js) ==
    IF js = <<>> THEN ValOk(<<>>)
    ELSE IF Head(js) = JNull THEN ParseAllSkipNull(Tail(js))
    ELSE LET h == JsonToVal(Head(js))
         IN IF ~h.ok THEN h
            ELSE LET t == ParseAllSkipNull(Tail(js))
                 IN IF ~t.ok THEN t ELSE ValOk(h.vs \o t.vs)

ParseAll(js) ==
    IF js = <<>> THEN ValOk(<<>>)
    ELSE LET h == JsonToVal(Head(js))
         IN IF ~h.ok THEN h
            ELSE LET t == ParseAll(Tail(js))
                 IN IF ~t.ok THEN t ELSE ValOk(h.vs \o t.vs)

ObjectToVal(obj) ==
    LET len == Len(obj.keys)
        IsString(k) == HasKey(obj, k) /\ Get(obj, k).t = "string"
        val == JsonToVal(Get(obj, "val"))
        resultShape == IsString("__result") /\ len = 2 /\ HasKey(obj, "val")
    IN IF resultShape /\ Get(obj, "val") # JNull /\ ~val.ok
          THEN val
       ELSE IF resultShape /\ Get(obj, "__result").s \in {"Ok", "Err"}
          THEN ValOk(<<VResult(Get(obj, "__result").s,
                               IF Get(obj, "val") = JNull THEN <<>> ELSE val.vs)>>)
       ELSE IF IsString("__variant") /\ len = 1
          THEN ValOk(<<VVariant(Get(obj, "__variant").s, <<>>)>>)
       ELSE IF IsString("__variant") /\ len = 2 /\ HasKey(obj, "val")
          THEN IF val.ok THEN ValOk(<<VVariant(Get(obj, "__variant").s, val.vs)>>) ELSE val
       ELSE IF IsString("__option") /\ Get(obj, "__option").s = "None" /\ len = 1
          THEN ValOk(<<VOption(<<>>)>>)
       ELSE IF IsString("__option") /\ Get(obj, "__option").s = "Some" /\ len = 2
               /\ HasKey(obj, "val")
          THEN IF val.ok THEN ValOk(<<VOption(val.vs)>>) ELSE val
       ELSE IF len = 1 /\ HasKey(obj, "__tuple") /\ Get(obj, "__tuple").t = "array"
          THEN LET items == ParseAll(Get(obj, "__tuple").vals)
               IN IF items.ok THEN ValOk(<<VTuple(items.vs)>>) ELSE items
       ELSE IF len = 1 /\ IsString("__enum")
          THEN ValOk(<<VEnum(Get(obj, "__enum").s)>>)
       ELSE IF len = 1 /\ IsString("__resource")
          THEN ValErr("ResourceError")
       ELSE IF len = 1 /\ HasKey(obj, "__flags") /\ Get(obj, "__flags").t = "object"
          THEN ValOk(<<VFlags(EnabledFlags(Get(obj, "__flags").keys, Get(obj, "__flags").vals))>>)
       ELSE LET fields == ParseAll(obj.vals)
            IN IF fields.ok THEN ValOk(<<VRecord(obj.keys, fields.vs)>>) ELSE fields

JsonToVal(j) ==
    CASE j.t = "null" -> ValErr("ShapeError: stand-alone null not allowed")
      [] j.t = "bool" -> ValOk(<<VBool(j.n = 1)>>)
      [] j.t = "int" -> IF j.n <= I64Max THEN ValOk(<<VInt("S64", j.n)>>)
                        ELSE ValOk(<<VFloat("Float64", "int", j.n)>>)
      [] j.t = "float" -> ValOk(<<VFloat("Float64", j.s, j.n)>>)
      [] j.t = "string" -> ValOk(<<VString(j.s)>>)
      [] j.t = "array" -> LET items == ParseAll(j.vals)
                          IN IF items.ok THEN ValOk(<<VList(items.vs)>>) ELSE items
      [] j.t = "object" -> ObjectToVal(j)

(* json_to_vals *)
JsonToVals(j) == IF j.t = "object" THEN ParseAll(j.vals) ELSE JsonToVal(j)

\* the keys val0, val1, .. of vals_to_json
ValKey(i) == <<"val0", "val1", "val2", "val3", "val4">>[i + 1]

(* vals_to_json *)
ValsToJson(vs, po) ==
    IF Len(vs) = 0 THEN JNull
    ELSE IF Len(vs) = 1 THEN ValToJson(vs[1], po)
    ELSE InsertAll(EmptyObject, [i \in 1..Len(vs) |-> ValKey(i - 1)],
                   [i \in 1..Len(vs) |-> ValToJson(vs[i], po)], po)
----------------------------------------------------------------------------
(* The conversions applied to bounded sets of inputs *)

\* the longest list of values given to vals_to_json
MaxVals == 3

\* values that json_to_val can return
Scalars ==
    { VBool(TRUE), VInt("S64", 1), VInt("S64", 0 - 1), VString("x"),
      VFloat("Float64", "1.5", 0), VFloat("Float64", "inf", 0) }

\* values of the kinds that json_to_val never returns
OtherScalars ==
    { VChar("x"), VFloat("Float32", "1.5", 0), VInt("U8", 1), VInt("S32", 0 - 1),
      VInt("U64", I64Max), VInt("U64", U64Max), VResource("r") }

FieldNames == {"a", "b", "tag", "val", "ok", "err", "__enum", "__option"}

NamePairs == { <<"a", "b">>, <<"b", "a">>, <<"tag", "val">>, <<"__result", "val">> }

CaseNames == {"a", "None"}

\* the values of every composite kind built from elements of S, the second
\* element, field or flag being taken from T
Wrap(S, T) ==
    {VList(<<>>), VTuple(<<>>), VRecord(<<>>, <<>>), VFlags(<<>>), VOption(<<>>)}
    \cup {VList(<<a>>) : a \in S} \cup {VList(<<a, b>>) : a \in S, b \in T}
    \cup {VTuple(<<a>>) : a \in S} \cup {VTuple(<<a, b>>) : a \in S, b \in T}
    \cup {VRecord(<<n>>, <<a>>) : n \in FieldNames, a \in S}
    \cup {VRecord(np, <<a, b>>) : np \in NamePairs, a \in S, b \in T}
    \cup {VVariant(c, <<>>) : c \in CaseNames} \cup {VVariant(c, <<a>>) : c \in CaseNames, a \in S}
    \cup {VEnum(c) : c \in CaseNames}
    \cup {VOption(<<a>>) : a \in S}
    \cup {VResult(r, <<>>) : r \in {"Ok", "Err"}} \cup {VResult(r, <<a>>) : r \in {"Ok", "Err"}, a \in S}
    \cup {VFlags(<<f>>) : f \in FieldNames} \cup {VFlags(np) : np \in NamePairs}

\* composite values that are nested once more
Nested ==
    { VList(<<VInt("S64", 1)>>), VRecord(<<"a">>, <<VString("x")>>), VTuple(<<VBool(TRUE)>>),
      VVariant("a", <<VString("x")>>), VEnum("a"), VOption(<<>>), VOption(<<VInt("S64", 1)>>),
      VResult("Ok", <<>>), VResult("Err", <<VString("x")>>), VFlags(<<"a">>) }

\* the typed values without Char, Float32, resource and integers other than S64
PlainVals == Scalars \cup Wrap(Scalars, {VString("x")}) \cup Wrap(Nested, {VOption(<<>>)})

\* typed values that contain one of the other kinds
OtherVals == OtherScalars \cup Wrap(OtherScalars, {VString("x")})

RECURSIVE SeqsOf(_, _)
SeqsOf(S, n) ==
    IF n = 0 THEN {<<>>}
    ELSE SeqsOf(S, n - 1) \cup {Append(q, x) : q \in {r \in SeqsOf(S, n - 1) : Len(r) = n - 1}, x \in S}

\* the lists of values given to vals_to_json
ValLists ==
    SeqsOf({VInt("S64", 1), VRecord(<<"a", "b">>, <<VBool(TRUE), VString("x")>>), VOption(<<>>)}, MaxVals)
    \cup {<<v>> : v \in {VRecord(<<>>, <<>>), VVariant("a", <<VString("x")>>), VResult("Ok", <<>>),
                         VResult("Err", <<VString("x")>>), VString("x"), VList(<<>>)}}
\* JSON documents given to json_to_val; their objects are built by the Map of the build
JsonInputs(po) ==
    LET Obj(keys, vals) == InsertAll(EmptyObject, keys, vals, po)
        one == JNumber(1)
        x == JString("x")
        okNull == Obj(<<"__result", "val">>, <<JString("Ok"), JNull>>)
    IN { JNull, JBool(TRUE), one, x, JFloat("1.5", 0), JNumber(U64Max),
         JArray(<<>>), JArray(<<one>>), JArray(<<JNull>>), JArray(<<one, JNull>>),
         okNull,
         Obj(<<"__result", "val">>, <<JString("Err"), JNull>>),
         Obj(<<"__result", "val">>, <<JString("Ok"), one>>),
         Obj(<<"__result", "val">>, <<JString("Maybe"), JNull>>),
         Obj(<<"__result", "val">>, <<JString("Maybe"), one>>),
         Obj(<<"__result", "val">>, <<one, one>>),
         Obj(<<"__result", "val">>, <<JString("Ok"), okNull>>),
         Obj(<<"__result", "val">>, <<JString("Ok"), JArray(<<JNull>>)>>),
         Obj(<<"__result">>, <<JString("Ok")>>),
         Obj(<<"__result", "a">>, <<JString("Ok"), one>>),
         Obj(<<"__result", "val", "a">>, <<JString("Ok"), one, one>>),
         Obj(<<"__result", "val", "a">>, <<JString("Ok"), JNull, one>>),
         Obj(<<"__result", "__variant">>, <<JString("Ok"), JString("a")>>),
         Obj(<<"__variant">>, <<JString("a")>>),
         Obj(<<"__variant", "val">>, <<JString("a"), one>>),
         Obj(<<"__variant", "val">>, <<JString("a"), JNull>>),
         Obj(<<"__variant", "b">>, <<JString("a"), one>>),
         Obj(<<"__variant">>, <<one>>),
         Obj(<<"__variant", "__option">>, <<JString("a"), JString("None")>>),
         Obj(<<"__option">>, <<JString("None")>>),
         Obj(<<"__option", "val">>, <<JString("Some"), one>>),
         Obj(<<"__option", "val">>, <<JString("Some"), JNull>>),
         Obj(<<"__option">>, <<JString("Some")>>),
         Obj(<<"__option", "val">>, <<JString("None"), one>>),
         Obj(<<"__option">>, <<x>>),
         Obj(<<"__tuple">>, <<JArray(<<one, x>>)>>),
         Obj(<<"__tuple">>, <<JArray(<<JNull>>)>>),
         Obj(<<"__tuple">>, <<one>>),
         Obj(<<"__tuple", "a">>, <<JArray(<<one>>), one>>),
         Obj(<<"__enum">>, <<JString("a")>>),
         Obj(<<"__enum">>, <<one>>),
         Obj(<<"__enum">>, <<JNull>>),
         Obj(<<"__enum", "b">>, <<JString("a"), one>>),
         Obj(<<"__resource">>, <<JString("r")>>),
         Obj(<<"__resource", "a">>, <<JString("r"), one>>),
         Obj(<<"__flags">>, <<Obj(<<"a", "b">>, <<JBool(TRUE), JBool(FALSE)>>)>>),
         Obj(<<"__flags">>, <<Obj(<<"b", "a">>, <<JBool(TRUE), JBool(TRUE)>>)>>),
         Obj(<<"__flags">>, <<Obj(<<"a">>, <<JNull>>)>>),
         Obj(<<"__flags">>, <<Obj(<<"a">>, <<one>>)>>),
         Obj(<<"__flags">>, <<EmptyObject>>),
         Obj(<<"__flags">>, <<one>>),
         Obj(<<"__flags", "b">>, <<Obj(<<"a">>, <<JBool(TRUE)>>), one>>),
         Obj(<<"__flags", "b">>, <<Obj(<<"a">>, <<JNull>>), one>>),
         Obj(<<"tag", "val">>, <<x, one>>),
         Obj(<<"ok">>, <<one>>),
         Obj(<<"err">>, <<x>>),
         Obj(<<"val">>, <<one>>),
         Obj(<<"ok", "err">>, <<one, x>>),
         Obj(<<"a">>, <<JNull>>),
         Obj(<<"a">>, <<Obj(<<"b">>, <<JNull>>)>>),
         Obj(<<"a">>, <<okNull>>),
         Obj(<<"b", "a">>, <<one, Obj(<<"__enum">>, <<JString("a")>>)>>),
         JArray(<<okNull>>),
         EmptyObject }

NoRes == [ok |-> FALSE, err |-> "none", vs |-> <<>>]

\* the conversion chain that starts: on one typed value ("val"), on a list
\* of typed values ("vals"), or on a JSON document ("json")
ConvStart(mode, po, vals, json) ==
    [mode |-> mode, step |-> IF mode = "json" THEN 1 ELSE 0, po |-> po,
     vals |-> vals, json |-> json, res |-> NoRes, json2 |-> JNull]

InitConv ==
    /\ InitManager(EmptyDir, <<>>)
    /\ \E po \in BOOLEAN :
          conv \in {ConvStart("val", po, <<v>>, JNull) : v \in PlainVals \cup OtherVals}
                   \cup {ConvStart("vals", po, vs, JNull) : vs \in ValLists}
                   \cup {ConvStart("json", po, <<>>, j) : j \in JsonInputs(po)}

convFrame == UNCHANGED <<memVars, polVars, wasm, pc, loc, ret, histVars, lockVars, toolVars>>

ApplyValToJson ==
    /\ conv.mode = "val" /\ conv.step = 0
    /\ conv' = [conv EXCEPT !.json = ValToJson(conv.vals[1], conv.po), !.step = 1]
    /\ convFrame

ApplyValsToJson ==
    /\ conv.mode = "vals" /\ conv.step = 0
    /\ conv' = [conv EXCEPT !.json = ValsToJson(conv.vals, conv.po), !.step = 1]
    /\ convFrame

ApplyJsonToVal ==
    /\ conv.mode \in {"val", "json"} /\ conv.step = 1
    /\ conv' = [conv EXCEPT !.res = JsonToVal(conv.json), !.step = 2]
    /\ convFrame

ApplyJsonToVals ==
    /\ conv.mode = "vals" /\ conv.step = 1
    /\ conv' = [conv EXCEPT !.res = JsonToVals(conv.json), !.step = 2]
    /\ convFrame

\* val_to_json on the value that json_to_val returned
ReapplyValToJson ==
    /\ conv.mode \in {"val", "json"} /\ conv.step = 2 /\ conv.res.ok
    /\ conv' = [conv EXCEPT !.json2 = ValToJson(conv.res.vs[1], conv.po), !.step = 3]
    /\ convFrame

NextConv ==
    \/ ApplyValToJson
    \/ ApplyValsToJson
    \/ ApplyJsonToVal
    \/ ApplyJsonToVals
    \/ ReapplyValToJson

SpecConv == InitConv /\ [][NextConv]_vars

\* C22: a typed value without Char, Float32, resource and integer other than
\* S64 comes back unchanged from val_to_json followed by json_to_val.
C22_RoundTripOfPlainValues ==
    (conv.mode = "val" /\ conv.step >= 2 /\ conv.vals[1] \in PlainVals)
       => conv.res.ok /\ conv.res.vs = conv.vals

\* C23: json_to_val accepts every document that val_to_json produced, and
\* val_to_json of the value it returns is that document.
C23_RoundTripOfProducedJson ==
    conv.mode = "val" =>
       /\ conv.step >= 2 => conv.res.ok
       /\ conv.step = 3 => JsonEq(conv.json2, conv.json)

\* C24: vals_to_json yields null for no value, the JSON of the value for one
\* value and the object {val0, val1, ..} for more, and json_to_vals of that
\* document returns as many values as vals_to_json was given.
C24_ValsRoundTripKeepsLength ==
    conv.mode = "vals" =>
       /\ conv.step >= 1 =>
             LET n == Len(conv.vals)
             IN /\ n = 0 => conv.json = JNull
                /\ n = 1 => conv.json = ValToJson(conv.vals[1], conv.po)
                /\ n >= 2 =>
                      /\ conv.json.t = "object"
                      /\ Len(conv.json.keys) = n
                      /\ \A i \in 1..n :
                            /\ HasKey(conv.json, ValKey(i - 1))
                            /\ Get(conv.json, ValKey(i - 1)) = ValToJson(conv.vals[i], conv.po)
       /\ conv.step = 2 => conv.res.ok /\ Len(conv.res.vs) = Len(conv.vals)
\* the first shape that an object has, the shapes being tried in the order
\* __result, __variant, __option and, for an object of one key, __tuple,
\* __enum, __resource, __flags
ShapeOf(obj) ==
    LET len == Len(obj.keys)
        Str(k) == HasKey(obj, k) /\ Get(obj, k).t = "string"
        withVal == len = 2 /\ HasKey(obj, "val")
    IN IF Str("__result") /\ withVal /\ Get(obj, "__result").s \in {"Ok", "Err"} THEN "Result"
       ELSE IF Str("__variant") /\ (len = 1 \/ withVal) THEN "Variant"
       ELSE IF Str("__option") /\ \/ Get(obj, "__option").s = "None" /\ len = 1
                                  \/ Get(obj, "__option").s = "Some" /\ withVal THEN "Option"
       ELSE IF len = 1 /\ HasKey(obj, "__tuple") /\ Get(obj, "__tuple").t = "array" THEN "Tuple"
       ELSE IF len = 1 /\ Str("__enum") THEN "Enum"
       ELSE IF len = 1 /\ Str("__resource") THEN "Resource"
       ELSE IF len = 1 /\ HasKey(obj, "__flags") /\ Get(obj, "__flags").t = "object" THEN "Flags"
       ELSE "Record"

\* json_to_val has returned for the JSON document of the chain
Parsed == conv.mode = "json" /\ conv.step >= 2

\* C25: json_to_val gives an object the kind of the first shape it has in the
\* order __result, __variant, __option, then for one key __tuple, __enum,
\* __resource (ResourceError), __flags (the keys whose value is true); every
\* other object, also one with the keys tag, val, ok or err, becomes a Record
\* with the keys of the object and the parsed values of its members.
C25_ObjectsClassifiedInOrder ==
    (Parsed /\ conv.json.t = "object") =>
       LET obj == conv.json
           shape == ShapeOf(obj)
           v == conv.res.vs[1]
       IN /\ shape = "Resource" => ~conv.res.ok /\ conv.res.err = "ResourceError"
          /\ conv.res.ok => v.k = shape
          /\ shape = "Flags" =>
                /\ conv.res.ok
                /\ \A k \in FieldNames :
                      (\E i \in 1..Len(v.names) : v.names[i] = k)
                         <=> (HasKey(Get(obj, "__flags"), k) /\ Get(Get(obj, "__flags"), k) = JBool(TRUE))
          /\ shape = "Record" =>
                /\ conv.res.ok =>
                      /\ v.names = obj.keys
                      /\ \A i \in 1..Len(obj.keys) : JsonToVal(obj.vals[i]) = ValOk(<<v.items[i]>>)
                /\ ~conv.res.ok => \E i \in 1..Len(obj.keys) : ~JsonToVal(obj.vals[i]).ok
          /\ (\A i \in 1..Len(obj.keys) : obj.keys[i] \in {"tag", "val", "ok", "err"})
                => shape = "Record"

C25_Witness ==
    /\ Parsed
    /\ conv.json = JObject(<<"tag", "val">>, <<JString("x"), JNumber(1)>>)
    /\ conv.res = ValOk(<<VRecord(<<"tag", "val">>, <<VString("x"), VInt("S64", 1)>>)>>)

\* the object is a __result object with val
IsResultObject(j) ==
    /\ j.t = "object" /\ Len(j.keys) = 2
    /\ HasKey(j, "__result") /\ HasKey(j, "val")
    /\ Get(j, "__result").t = "string" /\ Get(j, "__result").s \in {"Ok", "Err"}

\* the document holds a null that is not the val of a __result object
RECURSIVE NullOutsideResult(_)
NullOutsideResult(j) ==
    \/ j = JNull
    \/ IsResultObject(j) /\ Get(j, "val") # JNull /\ NullOutsideResult(Get(j, "val"))
    \/ ~IsResultObject(j) /\ \E i \in 1..Len(j.vals) : NullOutsideResult(j.vals[i])

\* the document holds a null that is neither the val of a __result object nor
\* below the __flags key of an object of one key
RECURSIVE NullOutsideResultAndFlags(_)
NullOutsideResultAndFlags(j) ==
    \/ j = JNull
    \/ IsResultObject(j) /\ Get(j, "val") # JNull /\ NullOutsideResultAndFlags(Get(j, "val"))
    \/ /\ ~IsResultObject(j)
       /\ ~(j.t = "object" /\ ShapeOf(j) = "Flags")
       /\ \E i \in 1..Len(j.vals) : NullOutsideResultAndFlags(j.vals[i])

\* a __result object whose val is null becomes Ok or Err without payload
NullPayloadAccepted ==
    (Parsed /\ IsResultObject(conv.json) /\ Get(conv.json, "val") = JNull)
       => conv.res = ValOk(<<VResult(Get(conv.json, "__result").s, <<>>)>>)

----------------------------------------------------------------------------
(* component2json: the tool names of the exports of a component *)

\* the deepest nesting of exported instances and components
MaxDepth == 2

\* wasmtime ComponentItem with the exports of an instance or component
Item(kind, exports) == [kind |-> kind, exports |-> exports]

Export(name, item) == [name |-> name, item |-> item]

FuncItem == Item("ComponentFunc", <<>>)

TypeItem == Item("Type", <<>>)

(* gather_exported_functions; previous_name is <<>> for None and <<prefix>>
   for Some(prefix); the result is the names pushed to results *)
RECURSIVE GatherExportedFunctions(_, _, _)
RECURSIVE GatherExports(_, _)

\* for (export_name, export_item) in exports { gather_exported_functions(..) }
GatherExports(exports, previous_name) ==
    IF exports = <<>> THEN <<>>
    ELSE GatherExportedFunctions(Head(exports).name, previous_name, Head(exports).item)
         \o GatherExports(Tail(exports), previous_name)

GatherExportedFunctions(export_name, previous_name, item) ==
    CASE item.kind = "ComponentFunc" ->
            << IF previous_name # <<>> THEN previous_name[1] \o "." \o export_name
               ELSE export_name >>
      [] item.kind \in {"Component", "ComponentInstance"} ->
            GatherExports(item.exports, <<export_name>>)
      [] OTHER -> <<>>

(* component_exports_to_json_schema: the names of the tools array *)
ToolNamesOfExports(exports) == GatherExports(exports, <<>>)

\* lists of exports over the items S
ExportLists(S) ==
    {<<Export(n, x)>> : n \in {"a", "b"}, x \in S}
    \cup {<<Export("a", x), Export("b", FuncItem)>> : x \in S}

\* the items nested at most d deep
RECURSIVE Items(_)
Items(d) ==
    IF d = 0 THEN {FuncItem, TypeItem}
    ELSE {FuncItem, TypeItem}
         \cup {Item(k, e) : k \in {"Component", "ComponentInstance"}, e \in ExportLists(Items(d - 1))}

InitExports ==
    /\ InitManager(EmptyDir, <<>>)
    /\ conv \in {[mode |-> "exports", step |-> 0, exports |-> e, tools |-> <<>>] :
                    e \in ExportLists(Items(MaxDepth))}

ApplyGather ==
    /\ conv.mode = "exports" /\ conv.step = 0
    /\ conv' = [conv EXCEPT !.tools = ToolNamesOfExports(conv.exports), !.step = 1]
    /\ convFrame

NextExports == ApplyGather

SpecExports == InitExports /\ [][NextExports]_vars

\* the names of the functions of a list of exports, each prefixed by the
\* names of all enclosing exports, every one followed by "."
RECURSIVE PathNames(_, _)
PathNames(exports, prefix) ==
    IF exports = <<>> THEN <<>>
    ELSE LET e == Head(exports)
         IN (CASE e.item.kind = "ComponentFunc" -> <<prefix \o e.name>>
               [] e.item.kind \in {"Component", "ComponentInstance"} ->
                     PathNames(e.item.exports, prefix \o e.name \o ".")
               [] OTHER -> <<>>)
            \o PathNames(Tail(exports), prefix)

\* C27: the tool of an exported function is named by the export name at the
\* root, and by the names of all enclosing exports from the root down, each
\* followed by ".", and the function name when it is nested, at any depth.
C27_ToolNamesAreFullPaths ==
    (conv.mode = "exports" /\ conv.step = 1) => conv.tools = PathNames(conv.exports, "")
----------------------------------------------------------------------------
(* mcp-server: handle_tools_list and handle_tools_call *)

\* the number of tools/call requests
MaxToolCalls == 2

\* get_builtin_tools: the names of the tools it returns
GetBuiltinTools ==
    {"load-component", "unload-component", "list-components",
     "attach-policy", "detach-policy", "get-policy"}

\* the handler that the match on req.name selects
Handler(name) ==
    CASE name = "load-component" -> "handle_load_component"
      [] name = "unload-component" -> "handle_unload_component"
      [] name = "list-components" -> "handle_list_components"
      [] name = "attach-policy" -> "handle_attach_policy"
      [] name = "detach-policy" -> "handle_detach_policy"
      [] name = "get-policy" -> "handle_get_policy"
      [] OTHER -> "handle_component_call"

\* the names of the requests: the control tools of the interface, an export
\* of the components, a name that no component exports
CallNames ==
    {"load-component", "unload-component", "list-components", "attach-policy",
     "detach-policy", "get-policy", "grant-permission", "run", "nope"}

\* the arguments of the requests; "" is an argument that is missing
CallArguments ==
    { [component_id |-> "a", policy_uri |-> "file:///p1.yaml"],
      [component_id |-> "b", policy_uri |-> "file:///broken.yaml"],
      [component_id |-> "", policy_uri |-> ""] }

\* the handler failed
Failed(r) == r.res \in {"Err", "none"}

\* the message of the error that the handler returns
FailureMessage(rq, r) ==
    IF r.id = "" THEN r.info
    ELSE CASE rq.handler = "handle_attach_policy" ->
                 "Failed to attach policy " \o rq.policy_uri \o " to component "
                 \o rq.component_id \o ": " \o r.info
           [] rq.handler = "handle_detach_policy" ->
                 "Failed to detach policy from component " \o rq.component_id \o ": " \o r.info
           [] OTHER -> r.info

\* variant: the error of the handler is returned as the error of the call
ReplyOfPropagating(rq, r, prev) ==
    [result |-> IF Failed(r) THEN "Err" ELSE "Ok", name |-> rq.name, is_error |-> FALSE,
     text |-> IF Failed(r) THEN FailureMessage(rq, r) ELSE r.info, tools |-> {},
     errors |-> prev.errors + (IF Failed(r) THEN 1 ELSE 0)]

\* the value handle_tools_call returns for the result r of the handler;
\* errors counts the calls that failed so far
ReplyOf(rq, r, prev) ==
    [result |-> "Ok", name |-> rq.name, is_error |-> Failed(r),
     text |-> IF Failed(r) THEN "Error: " \o FailureMessage(rq, r) ELSE r.info, tools |-> {},
     errors |-> prev.errors + (IF Failed(r) THEN 1 ELSE 0)]

StartedTools == nops < MaxToolCalls /\ nops' = nops + 1

RecordedTools ==
    /\ last' =
          IF OpClass(ret'.op) = "read" \/ ret'.res # "Ok" THEN last
          ELSE [last EXCEPT ![ret'.id] =
                    [op |-> ret'.op,
                     times |-> IF last[ret'.id].op = ret'.op THEN 2 ELSE 1]]
    /\ UNCHANGED <<base, granted, lockVars, conv>>

(* handle_tools_list *)
HandleToolsList ==
    /\ reply' = [result |-> "Ok", name |-> "tools/list", is_error |-> FALSE, text |-> "",
                 tools |-> DOMAIN registry.tool_map \cup GetBuiltinTools,
                 errors |-> reply.errors]
    /\ StartedTools
    /\ UNCHANGED <<memVars, polVars, wasm, pc, loc, ret, last, base, granted, lockVars, conv, request>>

\* handle_tools_call: the match on req.name
ToolsCallBegin(p, name, args) ==
    /\ pc[p] = "idle"
    /\ request[p] = NoReq
    /\ request' = [request EXCEPT ![p] =
                      [name |-> name, handler |-> Handler(name),
                       component_id |-> args.component_id, policy_uri |-> args.policy_uri]]
    /\ StartedTools
    /\ UNCHANGED <<memVars, polVars, wasm, pc, loc, ret, last, base, granted, lockVars, conv, reply>>

Handling(p, handler) == request[p].handler = handler

\* handle_tools_call: the match on the result of the handler, once it has returned
Replied(p) ==
    IF pc'[p] = "idle"
    THEN /\ reply' = ReplyOf(request[p], ret', reply)
         /\ request' = [request EXCEPT ![p] = NoReq]
    ELSE UNCHANGED toolVars

\* a handler returns an error for an argument that is missing
HandleMissingArgument(p) ==
    /\ pc[p] = "idle"
    /\ request[p].handler \in {"handle_load_component", "handle_unload_component",
                               "handle_attach_policy", "handle_detach_policy", "handle_get_policy"}
    /\ request[p].component_id = ""
    /\ Returns(request[p].name, "", "Err", "Missing required argument: 'component_id'")
    /\ UNCHANGED <<memVars, polVars, wasm, pc, loc>>

(* handle_list_components *)
HandleListComponents(p) ==
    /\ pc[p] = "idle"
    /\ Handling(p, "handle_list_components")
    /\ Returns("list", "", "Ok", "components")
    /\ UNCHANGED <<memVars, polVars, wasm, pc, loc>>

(* handle_get_policy *)
HandleGetPolicy(p) ==
    /\ pc[p] = "idle"
    /\ Handling(p, "handle_get_policy")
    /\ request[p].component_id # ""
    /\ Returns("get-policy", request[p].component_id, "Ok",
               IF GetPolicyInfo(request[p].component_id).found
               THEN "policy found" ELSE "no policy found")
    /\ UNCHANGED <<memVars, polVars, wasm, pc, loc>>

\* the first step of the lifecycle operation that the handler of task p calls
HandlerBegin(p) ==
    LET id == request[p].component_id
    IN /\ pc[p] = "idle"
       /\ \/ /\ Handling(p, "handle_load_component") /\ id # ""
             /\ NoConflict(p, id, "lifecycle")
             /\ LoadAbort(p, id) \/ LoadRegister(p, id, "v1")
          \/ /\ Handling(p, "handle_unload_component") /\ id # ""
             /\ NoConflict(p, id, "lifecycle")
             /\ UnloadRemove(p, id, "unload")
          \/ /\ Handling(p, "handle_attach_policy") /\ id # ""
             /\ NoConflict(p, id, "policy")
             /\ AttachBegin(p, id, request[p].policy_uri)
          \/ /\ Handling(p, "handle_detach_policy") /\ id # ""
             /\ NoConflict(p, id, "policy")
             /\ DetachRegistry(p, id)
          \/ /\ Handling(p, "handle_component_call")
             /\ LookupTool(p, request[p].name)

\* a later step of that operation
HandlerStep(p) ==
    /\ request[p] # NoReq
    /\ \/ LoadCopyOk(p) \/ LoadCopyFail(p) \/ LoadRollback(p) \/ LoadInsert(p)
       \/ UnloadUnregister(p)
       \/ AttachFetch(p) \/ AttachCopy(p) \/ AttachMeta(p) \/ AttachRegistry(p)
       \/ DetachCheckYaml(p) \/ DetachRemoveYaml(p) \/ DetachCheckMeta(p) \/ DetachRemoveMeta(p)
       \/ GetComponent(p)

InitTools == InitFrom(TwoDir, <<"a", "b">>)

NextTools ==
    \/ HandleToolsList
    \/ \E p \in Tasks, name \in CallNames, args \in CallArguments : ToolsCallBegin(p, name, args)
    \/ \E p \in Tasks : HandleMissingArgument(p) /\ Replied(p) /\ Continued /\ RecordedTools
    \/ \E p \in Tasks : HandleListComponents(p) /\ Replied(p) /\ Continued /\ RecordedTools
    \/ \E p \in Tasks : HandleGetPolicy(p) /\ Replied(p) /\ Continued /\ RecordedTools
    \/ \E p \in Tasks : HandlerBegin(p) /\ Replied(p) /\ Continued /\ RecordedTools
    \/ \E p \in Tasks : HandlerStep(p) /\ Replied(p) /\ Continued /\ RecordedTools

SpecTools == InitTools /\ [][NextTools]_vars
\* handle_tools_call returns to task p in this step
CallReturned(p) == request[p] # NoReq /\ request'[p] = NoReq

\* C28: handle_tools_call returns Ok whatever the handler returned; when the
\* handler failed, the result has is_error set and the one text "Error: "
\* followed by the message of the failure, and the task holds nothing of the
\* manager any more, which serves the calls that follow.
C28_FailuresBecomeErrorResults ==
    [][\A p \in Tasks :
          CallReturned(p) =>
             /\ reply'.result = "Ok"
             /\ reply'.name = request[p].name
             /\ reply'.is_error <=> Failed(ret')
             /\ Failed(ret') =>
                   reply'.text = "Error: " \o FailureMessage(request[p], ret')
             /\ pc'[p] = "idle" /\ loc'[p] = IdleLoc]_vars

\* a call has failed, and a later attach-policy has succeeded
C28_Witness ==
    /\ reply.errors >= 1
    /\ reply.result = "Ok" /\ ~reply.is_error
    /\ reply.name = "attach-policy"
    /\ "a" \in DOMAIN policy_registry

\* the control tools of the interface and the lifecycle operation of each
ControlTools ==
    {"load-component", "unload-component", "list-components", "attach-policy",
     "detach-policy", "get-policy", "grant-permission"}

OperationOf(name) ==
    CASE name = "load-component" -> "load"
      [] name = "unload-component" -> "unload"
      [] name = "attach-policy" -> "attach"
      [] name = "detach-policy" -> "detach"
      [] name = "grant-permission" -> "grant"
      [] OTHER -> "call"

\* C29: a request named by a control tool is never handled as a component
\* call and runs the lifecycle operation of that tool, every other request
\* is handled as a component call, and list-tools names every control tool.
C29_ControlToolsDispatched ==
    /\ \A p \in Tasks :
          request[p] # NoReq =>
             /\ request[p].name \in ControlTools <=> request[p].handler # "handle_component_call"
             /\ pc[p] # "idle" => loc[p].op = OperationOf(request[p].name)
    /\ reply.name = "tools/list" => ControlTools \subseteq reply.tools
----------------------------------------------------------------------------
(* ComponentRegistry under sequences of register_component and unregister_component *)

\* the number of calls
MaxRegOps == 4

\* the schemas given to register_component: those of the binaries, one
\* without tools, one with the same name twice, one with the names in the
\* other order
RegSchemas ==
    { ComponentExportsToJsonSchema("v1"), ComponentExportsToJsonSchema("v2"),
      [tools |-> <<>>],
      [tools |-> << [name |-> "run", inputSchema |-> "s1"], [name |-> "run", inputSchema |-> "s2"] >>],
      [tools |-> << [name |-> "aux", inputSchema |-> "s2"], [name |-> "run", inputSchema |-> "s1"] >>] }

StartedReg == nops < MaxRegOps /\ nops' = nops + 1

regFrame ==
    UNCHANGED <<components, polVars, wasm, pc, loc, last, base, granted, lockVars, conv, toolVars>>

\* unregister_component(id) followed by register_component(id, schema)
RegistryRegister(id, schema) ==
    /\ registry' = RegisterComponent(UnregisterComponent(registry, id), id, schema)
    /\ Returns("register", id, "Ok", "")
    /\ StartedReg
    /\ regFrame

\* unregister_component(id); info tells whether the reverse index had the id
RegistryUnregister(id) ==
    /\ registry' = UnregisterComponent(registry, id)
    /\ Returns("unregister", id, "Ok",
               IF id \in DOMAIN registry.component_map THEN "removed" ELSE "absent")
    /\ StartedReg
    /\ regFrame

NextRegistry ==
    \/ \E id \in Ids, schema \in RegSchemas : RegistryRegister(id, schema)
    \/ \E id \in Ids : RegistryUnregister(id)

SpecRegistry == Init /\ [][NextRegistry]_vars

\* the names in the reverse index list of a component
ToolsOf(reg, id) ==
    IF id \in DOMAIN reg.component_map
    THEN {reg.component_map[id][i] : i \in 1..Len(reg.component_map[id])}
    ELSE {}

\* no bucket is empty, and the tool index and the reverse index agree
RegistryConsistent(reg) ==
    /\ \A name \in DOMAIN reg.tool_map : reg.tool_map[name] # <<>>
    /\ \A id \in Ids, name \in ToolNames :
          id \in BucketIds(GetToolInfo(reg, name)) <=> name \in ToolsOf(reg, id)

\* unregister_component returns in this step
UnregisterReturned == nops' # nops /\ ret'.op = "unregister"

\* C30: after every sequence of register_component, each on an id that was
\* unregistered just before, and unregister_component, the tool index has no
\* empty bucket and holds an entry of id under name exactly if name is in the
\* reverse index list of id; unregister_component(id) removes the entries of
\* id and leaves those of the other components, in their order, and their
\* reverse index lists as they were.
C30_RegistryStaysConsistent ==
    /\ [](RegistryConsistent(registry))
    /\ [][UnregisterReturned =>
             /\ \A name \in ToolNames :
                   GetToolInfo(registry', name) = WithoutOwner(GetToolInfo(registry, name), ret'.id)
             /\ ret'.id \notin DOMAIN registry'.component_map
             /\ \A id \in Ids \ {ret'.id} :
                   /\ id \in DOMAIN registry'.component_map <=> id \in DOMAIN registry.component_map
                   /\ id \in DOMAIN registry.component_map
                         => registry'.component_map[id] = registry.component_map[id]]_vars

\* a was unregistered while b shares the bucket of run and aux was only a's
C30_Witness ==
    /\ ret.op = "unregister" /\ ret.id = "a" /\ ret.info = "removed"
    /\ BucketIds(GetToolInfo(registry, "run")) = {"b"}
    /\ Len(GetToolInfo(registry, "run")) = 2
    /\ "aux" \notin DOMAIN registry.tool_map

\* ---------------------------------------------------------------------------
\* WasiStateTemplate::build over every template
\* ---------------------------------------------------------------------------

\* the storage rules the preopened directories of the templates come from
TemplateStorages ==
    {<<>>,
     <<[uri |-> "fs:///data", access |-> <<"read">>]>>,
     <<[uri |-> "fs:///tmp", access |-> <<"read", "write">>]>>}

\* every value of the WasiStateTemplate struct over these directories
Templates ==
    {[allow_stdout   |-> so,
      allow_stderr   |-> se,
      allow_args     |-> ar,
      network_perms  |-> [allow_tcp |-> tcp, allow_udp |-> udp,
                          allow_ip_name_lookup |-> lk],
      preopened_dirs |-> PreopenedDirs(st),
      config_vars    |-> <<>>] :
        so \in BOOLEAN, se \in BOOLEAN, ar \in BOOLEAN,
        tcp \in BOOLEAN, udp \in BOOLEAN, lk \in BOOLEAN, st \in TemplateStorages}
    \cup {DefaultTemplate}

InitBuild ==
    /\ InitManager(EmptyDir, <<>>)
    /\ conv \in {[mode |-> "template", template |-> t, built |-> "no",
                  state |-> Build(DefaultTemplate)] : t \in Templates}

\* build returns Ok(WasiState)
BuildOk ==
    /\ conv.mode = "template"
    /\ conv' = [conv EXCEPT !.mode = "built", !.built = "ok",
                            !.state = Build(conv.template)]
    /\ convFrame

\* ctx_builder.preopened_dir(...)? fails: the host directory cannot be opened
BuildErr ==
    /\ conv.mode = "template"
    /\ conv.template.preopened_dirs # <<>>
    /\ conv' = [conv EXCEPT !.mode = "built", !.built = "err"]
    /\ convFrame

NextBuild ==
    \/ BuildOk
    \/ BuildErr

SpecBuild == InitBuild /\ [][NextBuild]_vars

\* C31: an instance built from a template inherits the arguments only if
\* allow_args, stdout only if allow_stdout, stderr only if allow_stderr, its
\* tcp, udp and name-lookup permissions are the template's, and with the
\* default template it inherits stderr only.
C31_InstanceInheritsByTemplate ==
    (conv.mode = "built" /\ conv.built = "ok") =>
        /\ conv.state.inherit_args => conv.template.allow_args
        /\ conv.state.inherit_stdout => conv.template.allow_stdout
        /\ conv.state.inherit_stderr => conv.template.allow_stderr
        /\ conv.state.allow_tcp = conv.template.network_perms.allow_tcp
        /\ conv.state.allow_udp = conv.template.network_perms.allow_udp
        /\ conv.state.allow_ip_name_lookup
              = conv.template.network_perms.allow_ip_name_lookup
        /\ conv.template = DefaultTemplate =>
              /\ conv.state.inherit_stderr
              /\ ~conv.state.inherit_stdout
              /\ ~conv.state.inherit_args

\* the same without the arguments: standard streams and network flags follow
\* the template
C31_StreamsAndNetworkByTemplate ==
    (conv.mode = "built" /\ conv.built = "ok") =>
        /\ conv.state.inherit_stdout = conv.template.allow_stdout
        /\ conv.state.inherit_stderr = conv.template.allow_stderr
        /\ conv.state.allow_tcp = conv.template.network_perms.allow_tcp
        /\ conv.state.allow_udp = conv.template.network_perms.allow_udp
        /\ conv.state.allow_ip_name_lookup
              = conv.template.network_perms.allow_ip_name_lookup

\* ---------------------------------------------------------------------------
\* policy crate: get_storage_permissions
\* ---------------------------------------------------------------------------

MaxPerms == 2

\* a uri is the sequence of its pieces; "fs://" is a piece of its own wherever
\* the text has it
FsPrefix == "fs://"

PermUris ==
    {<<FsPrefix, "work/agent/**">>, <<FsPrefix, "configs/readonly.yml">>,
     <<FsPrefix, FsPrefix, "twice">>, <<"file://", "other">>}

\* perm.access: Vec<AccessType>, in the order the policy file gives it
AccessLists ==
    {<<"read">>, <<"write">>, <<"read", "write">>, <<"write", "read">>,
     <<"read", "read">>, <<"write", "write">>, <<"read", "write", "read">>,
     <<"write", "read", "write">>}

\* str::starts_with("fs://")
StartsWithFsPrefix(uri) == uri # <<>> /\ Head(uri) = FsPrefix

\* str::trim_start_matches("fs://"): removes the prefix as often as it repeats
RECURSIVE TrimStartMatchesFs(_)
TrimStartMatchesFs(uri) ==
    IF StartsWithFsPrefix(uri) THEN TrimStartMatchesFs(Tail(uri)) ELSE uri

\* str::contains(char) on the access string built so far
Contains(access, c) == \E i \in 1..Len(access) : access[i] = c

\* the loop over perm.access: push 'r' / 'w' unless the string has it
RECURSIVE AccessModeOf(_, _)
AccessModeOf(access_types, access) ==
    IF access_types = <<>> THEN access
    ELSE LET c == IF Head(access_types) = "read" THEN "r" ELSE "w"
         IN AccessModeOf(Tail(access_types),
                         IF Contains(access, c) THEN access ELSE Append(access, c))

\* the loop over storage.allow
RECURSIVE StoragePermsOf(_)
StoragePermsOf(allowed) ==
    IF allowed = <<>> THEN <<>>
    ELSE IF StartsWithFsPrefix(Head(allowed).uri)
         THEN << <<TrimStartMatchesFs(Head(allowed).uri),
                   AccessModeOf(Head(allowed).access, <<>>)>> >>
              \o StoragePermsOf(Tail(allowed))
         ELSE StoragePermsOf(Tail(allowed))

\* get_storage_permissions on the outcome of PolicyParser::parse_file
GetStoragePermissions(file) ==
    IF ~file.parses THEN [ok |-> FALSE, perms |-> <<>>]
    ELSE IF file.storage # "allow" THEN [ok |-> TRUE, perms |-> <<>>]
    ELSE [ok |-> TRUE, perms |-> StoragePermsOf(file.allow)]

PermEntries == {[uri |-> u, access |-> a] : u \in PermUris, a \in AccessLists}

\* policy files: unparsable, without storage section, without allow list, or
\* with an allow list of up to MaxPerms entries
PermFiles ==
    {[parses |-> FALSE, storage |-> "none", allow |-> <<>>],
     [parses |-> TRUE, storage |-> "none", allow |-> <<>>],
     [parses |-> TRUE, storage |-> "no-allow", allow |-> <<>>]}
    \cup {[parses |-> TRUE, storage |-> "allow", allow |-> l] :
             l \in UNION {[1..n -> PermEntries] : n \in 0..MaxPerms}}

InitPerms ==
    /\ InitManager(EmptyDir, <<>>)
    /\ conv \in {[mode |-> "file", file |-> f, res |-> [ok |-> FALSE, perms |-> <<>>]] :
                    f \in PermFiles}

ApplyGetStoragePermissions ==
    /\ conv.mode = "file"
    /\ conv' = [conv EXCEPT !.mode = "perms", !.res = GetStoragePermissions(conv.file)]
    /\ convFrame

NextPerms == ApplyGetStoragePermissions

SpecPerms == InitPerms /\ [][NextPerms]_vars

\* what the property asks for: "r", "w" or "rw" by the kinds of access present
AccessLetters(access_types) ==
    LET r == \E i \in 1..Len(access_types) : access_types[i] = "read"
        w == \E i \in 1..Len(access_types) : access_types[i] = "write"
    IN IF r /\ w THEN <<"r", "w">> ELSE IF w THEN <<"w">> ELSE <<"r">>

RECURSIVE PairsAsked(_)
PairsAsked(allowed) ==
    IF allowed = <<>> THEN <<>>
    ELSE IF StartsWithFsPrefix(Head(allowed).uri)
         THEN << <<Tail(Head(allowed).uri), AccessLetters(Head(allowed).access)>> >>
              \o PairsAsked(Tail(allowed))
         ELSE PairsAsked(Tail(allowed))

\* C32: get_storage_permissions returns, in policy order, one pair for each
\* storage.allow entry whose uri starts with fs://: the uri without that prefix
\* and "r", "w" or "rw" whatever the order or repetition of the access list;
\* entries of other schemes are omitted.
C32_StoragePairsInPolicyOrder ==
    (conv.mode = "perms" /\ conv.res.ok /\ conv.file.storage = "allow") =>
        conv.res.perms = PairsAsked(conv.file.allow)

\* ---------------------------------------------------------------------------
\* ComponentRegistry::register_component on any serde_json::Value
\* ---------------------------------------------------------------------------

MaxTryOps == 3

\* a tool value whose "name" is a string, and one whose "name" is not
StringNamed(n, s) == [name |-> n, name_is_string |-> TRUE, inputSchema |-> s]
OtherNamed(s) == [name |-> "", name_is_string |-> FALSE, inputSchema |-> s]

\* schema values: without a tools array, with valid tools only, with a tool
\* whose name is not a string first, and after one and after two valid tools
SchemaValues ==
    {[has_tools |-> FALSE, tools |-> <<>>],
     [has_tools |-> TRUE, tools |-> <<>>],
     [has_tools |-> TRUE, tools |-> <<StringNamed("run", "s1")>>],
     [has_tools |-> TRUE, tools |-> <<StringNamed("run", "s2"), StringNamed("aux", "s2")>>],
     [has_tools |-> TRUE, tools |-> <<OtherNamed("s1")>>],
     [has_tools |-> TRUE, tools |-> <<StringNamed("run", "s1"), OtherNamed("s2")>>],
     [has_tools |-> TRUE, tools |-> <<StringNamed("run", "s1"), StringNamed("aux", "s2"),
                                      OtherNamed("s1")>>]}

\* the loop of register_component with the `?` on tool["name"].as_str():
\* entries pushed before the failing tool stay in the tool map
RECURSIVE TryRegisterTools(_, _, _, _)
TryRegisterTools(tm, id, tools, component_tools) ==
    IF tools = <<>> THEN [ok |-> TRUE, tool_map |-> tm, component_tools |-> component_tools]
    ELSE LET tool == Head(tools)
         IN IF ~tool.name_is_string
            THEN [ok |-> FALSE, tool_map |-> tm, component_tools |-> component_tools]
            ELSE LET bucket == IF tool.name \in DOMAIN tm THEN tm[tool.name] ELSE <<>>
                     info   == [component_id |-> id, schema |-> tool]
                 IN TryRegisterTools(MapInsert(tm, tool.name, Append(bucket, info)), id,
                                     Tail(tools), Append(component_tools, tool.name))

\* register_component with both of its error returns
TryRegisterComponent(reg, id, schema) ==
    IF ~schema.has_tools THEN [ok |-> FALSE, reg |-> reg]
    ELSE LET r == TryRegisterTools(reg.tool_map, id, schema.tools, <<>>)
         IN IF r.ok
            THEN [ok |-> TRUE,
                  reg |-> [tool_map |-> r.tool_map,
                           component_map |-> MapInsert(reg.component_map, id, r.component_tools)]]
            ELSE [ok |-> FALSE,
                  reg |-> [tool_map |-> r.tool_map, component_map |-> reg.component_map]]

StartedTry == nops < MaxTryOps /\ nops' = nops + 1

\* register_component(id, schema) on an id that is not registered, as at
\* each of its call sites
RegistryTryRegister(id, schema) ==
    /\ id \notin DOMAIN registry.component_map
    /\ LET r == TryRegisterComponent(registry, id, schema)
       IN /\ registry' = r.reg
          /\ Returns("register", id, IF r.ok THEN "Ok" ELSE "Err",
                     IF schema.has_tools THEN "tools" ELSE "no-tools")
    /\ StartedTry
    /\ regFrame

RegistryTryUnregister(id) ==
    /\ registry' = UnregisterComponent(registry, id)
    /\ Returns("unregister", id, "Ok",
               IF id \in DOMAIN registry.component_map THEN "removed" ELSE "absent")
    /\ StartedTry
    /\ regFrame

NextTryRegistry ==
    \/ \E id \in Ids, schema \in SchemaValues : RegistryTryRegister(id, schema)
    \/ \E id \in Ids : RegistryTryUnregister(id)

SpecTryRegistry == Init /\ [][NextTryRegistry]_vars

\* register_component returns an error in this step
RegisterFailed == nops' # nops /\ ret'.op = "register" /\ ret'.res = "Err"

\* C33: if register_component returns an error (no tools array, or a tool
\* whose name is not a string, possibly after valid tools), the tool index and
\* the reverse index are exactly as before the call.
C33_FailedRegisterChangesNothing ==
    [][RegisterFailed => registry' = registry]_vars

\* the part that holds: the reverse index is as before, and so is the tool
\* index when the schema has no tools array
C33_FailedRegisterKeepsReverseIndex ==
    [][RegisterFailed =>
          /\ registry'.component_map = registry.component_map
          /\ ret'.info = "no-tools" => registry' = registry]_vars

\* ---------------------------------------------------------------------------
\* GrantPermission calls that overlap on one component
\* ---------------------------------------------------------------------------

MaxRaceGrants == 2

\* history: some grant began while another had not returned
OverlapConv == [mode |-> "overlap"]

Overlapped == conv = OverlapConv

\* grant_permission is entered; nothing in it excludes another call
GrantRaceBegin(p, req) ==
    /\ nops < MaxRaceGrants
    /\ nops' = nops + 1
    /\ GrantBegin(p, GrantId, req[1], req[2])
    /\ conv' = IF \E q \in Tasks \ {p} : pc[q] # "idle" THEN OverlapConv ELSE conv
    /\ UNCHANGED <<last, base, granted, lockVars, toolVars>>

NextGrantRace ==
    \/ \E p \in Tasks, req \in GrantRequests : GrantRaceBegin(p, req)
    \/ \E p \in Tasks : GrantLoad(p) /\ UNCHANGED <<histVars, lockVars, conv, toolVars>>
    \/ \E p \in Tasks : GrantSave(p) /\ UNCHANGED <<histVars, lockVars, conv, toolVars>>
    \/ \E p \in Tasks :
          /\ GrantRegistry(p)
          /\ granted' = Append(granted, loc[p].rule)
          /\ UNCHANGED <<nops, last, base, lockVars, conv, toolVars>>

SpecGrantRace == InitGrant /\ [][NextGrantRace]_vars

\* two grants returned Ok, for two different hosts or two different uris
TwoDifferentGrants ==
    /\ AllIdle
    /\ Len(granted) = 2
    /\ granted[1].kind = granted[2].kind
    /\ granted[1].kind = "network" => granted[1].host # granted[2].host
    /\ granted[1].kind = "storage" => granted[1].uri # granted[2].uri

\* the sidecar has the grant of the rule
InSidecar(rule) ==
    IF rule.kind = "network" THEN HostCount(GrantDoc, rule.host) >= 1
    ELSE UriCount(GrantDoc, rule.uri) >= 1

\* C34: if two GrantPermission calls on the same component, for two
\* different hosts or two different uris, run concurrently and both return Ok,
\* the sidecar contains both grants.
C34_ConcurrentGrantsBothKept ==
    (TwoDifferentGrants /\ Overlapped) => (InSidecar(granted[1]) /\ InSidecar(granted[2]))

\* without overlap both grants are in the sidecar
C34_SequentialGrantsBothKept ==
    (TwoDifferentGrants /\ ~Overlapped) => (InSidecar(granted[1]) /\ InSidecar(granted[2]))

\* ---------------------------------------------------------------------------
\* Startup, AttachPolicy, DetachPolicy and GrantPermission in any interleaving
\* ---------------------------------------------------------------------------

MaxPolicyOps == 2

StartedPolicyOp ==
    /\ nops < MaxPolicyOps
    /\ nops' = nops + 1
    /\ UNCHANGED <<last, base, granted, lockVars, conv, toolVars>>

ContinuedPolicyOp == UNCHANGED <<histVars, lockVars, conv, toolVars>>

NextPolicyOps ==
    \/ \E p \in Tasks, id \in Ids, uri \in PolicyUris : AttachBegin(p, id, uri) /\ StartedPolicyOp
    \/ \E p \in Tasks : AttachFetch(p) /\ ContinuedPolicyOp
    \/ \E p \in Tasks : AttachCopy(p) /\ ContinuedPolicyOp
    \/ \E p \in Tasks : AttachMeta(p) /\ ContinuedPolicyOp
    \/ \E p \in Tasks : AttachRegistry(p) /\ ContinuedPolicyOp
    \/ \E p \in Tasks, id \in Ids : DetachRegistry(p, id) /\ StartedPolicyOp
    \/ \E p \in Tasks : DetachCheckYaml(p) /\ ContinuedPolicyOp
    \/ \E p \in Tasks : DetachRemoveYaml(p) /\ ContinuedPolicyOp
    \/ \E p \in Tasks : DetachCheckMeta(p) /\ ContinuedPolicyOp
    \/ \E p \in Tasks : DetachRemoveMeta(p) /\ ContinuedPolicyOp
    \/ \E p \in Tasks, id \in Ids, req \in IsoRequests :
          GrantBegin(p, id, req[1], req[2]) /\ StartedPolicyOp
    \/ \E p \in Tasks : GrantLoad(p) /\ ContinuedPolicyOp
    \/ \E p \in Tasks : GrantSave(p) /\ ContinuedPolicyOp
    \/ \E p \in Tasks : GrantRegistry(p) /\ ContinuedPolicyOp

SpecPolicyOps == InitLife /\ [][NextPolicyOps]_vars

\* the registry entry of id and the sidecar of id agree
PolicyInSync(id) ==
    /\ id \in DOMAIN policy_registry <=> id \in DOMAIN policy_yaml
    /\ id \in DOMAIN policy_yaml <=> GetPolicyInfo(id).found
    /\ id \in DOMAIN policy_registry =>
          /\ DocParses(policy_yaml[id])
          /\ policy_registry[id] = CreateWasiStateTemplateFromPolicy(policy_yaml[id])

\* C35: whenever no policy operation is in progress, after any sequence or
\* interleaving of startup, AttachPolicy, DetachPolicy and GrantPermission on
\* a component id, the policy registry has an entry for id iff the sidecar
\* <id>.policy.yaml exists (iff get_policy_info(id) returns a value), and the
\* entry is the template derived from the current content of the file.
C35_RegistryMatchesSidecar ==
    AllIdle => \A id \in DOMAIN components : PolicyInSync(id)

\* ---------------------------------------------------------------------------
\* Load and Uninstall in any interleaving
\* ---------------------------------------------------------------------------

lifeFrame == UNCHANGED <<histVars, lockVars, conv, toolVars>>

NextLoadUninstall ==
    \/ \E p \in Tasks, id \in Ids : LoadAbort(p, id) /\ lifeFrame
    \/ \E p \in Tasks, id \in Ids, bin \in Binaries : LoadRegister(p, id, bin) /\ lifeFrame
    \/ \E p \in Tasks : LoadCopyOk(p) /\ lifeFrame
    \/ \E p \in Tasks : LoadCopyFail(p) /\ lifeFrame
    \/ \E p \in Tasks : LoadRollback(p) /\ lifeFrame
    \/ \E p \in Tasks : LoadInsert(p) /\ lifeFrame
    \/ \E p \in Tasks, id \in Ids : UnloadRemove(p, id, "uninstall") /\ lifeFrame
    \/ \E p \in Tasks : UnloadUnregister(p) /\ lifeFrame
    \/ \E p \in Tasks : UninstallRemoveFile(p) /\ lifeFrame

SpecLoadUninstall == InitRestart /\ [][NextLoadUninstall]_vars

\* C36: for any interleaving of Load and Uninstall operations on the same or
\* different ids, once all of them have returned, every id in the in-memory
\* component map has its <id>.wasm file in the plugin directory.
C36_LoadedComponentsHaveFiles ==
    AllIdle => \A id \in DOMAIN components : id \in DOMAIN wasm

\* ---------------------------------------------------------------------------
\* LifecycleManager::new_with_policy on any plugin directory listing
\* ---------------------------------------------------------------------------

MaxEntries == 3

\* a directory entry: name and extension of its path, what its metadata says,
\* whether the metadata can be read, the content of a file, and whether the
\* file stem is valid UTF-8
DirEntry(name, ext, kind, meta_ok, bin, stem_ok) ==
    [name |-> name, ext |-> ext, kind |-> kind, meta_ok |-> meta_ok, bin |-> bin,
     stem_ok |-> stem_ok]

DownloadsFile == DirEntry("downloads", "", "file", TRUE, "", TRUE)

DownloadsSubdir == DirEntry("downloads", "", "dir", TRUE, "", TRUE)

DirEntries ==
    {DirEntry("a", "wasm", "file", TRUE, "v1", TRUE),
     DirEntry("b", "wasm", "file", TRUE, "v2", TRUE),
     DirEntry("c", "wasm", "file", TRUE, "broken", TRUE),
     DirEntry("d", "wasm", "dir", TRUE, "", TRUE),
     DirEntry("a.policy", "yaml", "file", TRUE, "", TRUE),
     DirEntry("notes", "txt", "file", FALSE, "", TRUE),
     DirEntry("e", "wasm", "file", FALSE, "v1", TRUE),
     DirEntry("", "wasm", "file", TRUE, "v1", FALSE),
     DownloadsFile,
     DownloadsSubdir}

\* Component::from_file succeeds on the content
Compiles(bin) == bin \in Binaries

\* variant: an entry whose metadata cannot be read is skipped
LoadComponentFromEntrySkipUnreadable(entry) ==
    IF ~entry.meta_ok THEN "none"
    ELSE IF ~(entry.kind = "file" /\ entry.ext = "wasm") THEN "none"
    ELSE IF ~Compiles(entry.bin) THEN "err"
    ELSE IF ~entry.stem_ok THEN "err"
    ELSE "some"

\* load_component_from_entry: Err, Ok(None) or Ok(Some((component, name)))
LoadComponentFromEntry(entry) ==
    IF ~entry.meta_ok THEN "err"
    ELSE IF ~(entry.kind = "file" /\ entry.ext = "wasm") THEN "none"
    ELSE IF ~Compiles(entry.bin) THEN "err"
    ELSE IF ~entry.stem_ok THEN "err"
    ELSE "some"

\* try_filter_map(load_component_from_entry).try_collect(): the names of the
\* loaded components in listing order, or the first error
RECURSIVE TryCollect(_)
TryCollect(entries) ==
    IF entries = <<>> THEN [ok |-> TRUE, names |-> <<>>]
    ELSE LET r == LoadComponentFromEntry(Head(entries))
         IN IF r = "err" THEN [ok |-> FALSE, names |-> <<>>]
            ELSE LET rest == TryCollect(Tail(entries))
                 IN IF ~rest.ok THEN rest
                    ELSE IF r = "some"
                         THEN [ok |-> TRUE, names |-> <<Head(entries).name>> \o rest.names]
                         ELSE rest

\* the files of the listing as the plugin directory of the manager
ListedDir(entries) ==
    LET files == {i \in 1..Len(entries) :
                     /\ entries[i].kind = "file" /\ entries[i].ext = "wasm"
                     /\ entries[i].stem_ok}
        at(n) == CHOOSE i \in files : entries[i].name = n
        hasPolicy == \E i \in 1..Len(entries) : entries[i].ext = "yaml"
    IN [wasm        |-> [n \in {entries[i].name : i \in files} |-> entries[at(n)].bin],
        policy_yaml |-> IF hasPolicy THEN [id \in {"a"} |-> PolicyFile("file:///p1.yaml")]
                        ELSE EmptyMap,
        policy_meta |-> EmptyMap]

\* create_dir_all(plugin_dir.join("downloads")) succeeds
CanCreateDownloads(d) ==
    /\ \A i \in 1..Len(d.entries) : d.entries[i] # DownloadsFile
    /\ d.writable \/ \E i \in 1..Len(d.entries) : d.entries[i] = DownloadsSubdir

\* new_with_policy: Ok with the maps of the manager, or the first error
NewWithPolicy(d) ==
    LET none == [components |-> EmptyMap, registry |-> NewRegistry,
                 policy_registry |-> EmptyMap]
    IN IF ~d.readable THEN [ok |-> FALSE, cause |-> "read_dir", st |-> none]
       ELSE LET r == TryCollect(d.entries)
            IN IF ~r.ok THEN [ok |-> FALSE, cause |-> "entry", st |-> none]
               ELSE IF ~CanCreateDownloads(d)
                    THEN [ok |-> FALSE, cause |-> "downloads", st |-> none]
                    ELSE [ok |-> TRUE, cause |-> "",
                          st |-> Startup(ListedDir(d.entries), r.names, none)]

\* listings of up to MaxEntries distinct entries, with one entry per name
Listings ==
    {l \in UNION {[1..n -> DirEntries] : n \in 0..MaxEntries} :
        \A i, j \in DOMAIN l : i # j => l[i].name # l[j].name}

InitConstruct ==
    /\ \E l \in Listings, readable \in BOOLEAN, writable \in BOOLEAN :
          /\ InitManager(ListedDir(l), <<>>)
          /\ conv = [mode |-> "dir",
                     dir |-> [entries |-> l, readable |-> readable, writable |-> writable],
                     ok |-> FALSE, cause |-> ""]

constructFrame == UNCHANGED <<wasm, policy_yaml, policy_meta, pc, loc, last, base, granted,
                              lockVars, toolVars>>

\* new_with_policy returns Ok(Self)
ConstructOk ==
    /\ conv.mode = "dir"
    /\ LET r == NewWithPolicy(conv.dir)
       IN /\ r.ok
          /\ components' = r.st.components
          /\ registry' = r.st.registry
          /\ policy_registry' = r.st.policy_registry
          /\ conv' = [conv EXCEPT !.mode = "constructed", !.ok = TRUE]
    /\ Returns("new", "", "Ok", "")
    /\ nops' = nops + 1
    /\ constructFrame

\* new_with_policy returns an error: there is no manager
ConstructErr ==
    /\ conv.mode = "dir"
    /\ LET r == NewWithPolicy(conv.dir)
       IN /\ ~r.ok
          /\ conv' = [conv EXCEPT !.mode = "constructed", !.cause = r.cause]
          /\ Returns("new", "", "Err", r.cause)
    /\ nops' = nops + 1
    /\ UNCHANGED <<components, registry, policy_registry>>
    /\ constructFrame

NextConstruct ==
    \/ ConstructOk
    \/ ConstructErr

SpecConstruct == InitConstruct /\ [][NextConstruct]_vars

\* the entries that are regular files with extension .wasm
RegularWasm(d) ==
    {i \in 1..Len(d.entries) : d.entries[i].kind = "file" /\ d.entries[i].ext = "wasm"}

\* some regular .wasm file of the listing does not compile
SomeWasmFailsToCompile(d) == \E i \in RegularWasm(d) : ~Compiles(d.entries[i].bin)

\* C37 (as stated): construction fails, leaving no manager and no component,
\* iff some regular .wasm file fails to compile or to register or the
\* directory cannot be read; directories and entries without the .wasm
\* extension are skipped and never cause a failure.
C37_FailsOnlyOnBadWasm ==
    conv.mode = "constructed" =>
        /\ ~conv.ok <=> (~conv.dir.readable \/ SomeWasmFailsToCompile(conv.dir))
        /\ ~conv.ok => components = EmptyMap

\* C37 (amended): construction fails, leaving no manager and no component,
\* iff the directory cannot be read, or the metadata of some entry (of any
\* kind or extension) cannot be read, or some regular .wasm file fails to
\* compile or has a stem that is not valid UTF-8, or the downloads
\* subdirectory cannot be created (a file of that name exists, or it is
\* missing and the directory is not writable); entries whose metadata can be
\* read and that are directories or lack the .wasm extension are skipped, and
\* on success the loaded components are the regular .wasm files.
C37_FailsOnAnyEntryOrDownloadsError ==
    conv.mode = "constructed" =>
        /\ ~conv.ok <=>
              \/ ~conv.dir.readable
              \/ \E i \in 1..Len(conv.dir.entries) : ~conv.dir.entries[i].meta_ok
              \/ SomeWasmFailsToCompile(conv.dir)
              \/ \E i \in RegularWasm(conv.dir) : ~conv.dir.entries[i].stem_ok
              \/ ~CanCreateDownloads(conv.dir)
        /\ ~conv.ok => components = EmptyMap
        /\ conv.ok =>
              /\ DOMAIN components = {conv.dir.entries[i].name : i \in RegularWasm(conv.dir)}
              /\ DOMAIN registry.component_map = DOMAIN components

\* construction failed on a directory whose only .wasm file compiles, because
\* a regular file named downloads is in the way
C37_Witness ==
    /\ conv.mode = "constructed"
    /\ ~conv.ok
    /\ conv.cause = "downloads"
    /\ conv.dir.readable
    /\ ~SomeWasmFailsToCompile(conv.dir)
    /\ \E i \in 1..Len(conv.dir.entries) : conv.dir.entries[i] = DownloadsFile
    /\ \E i \in RegularWasm(conv.dir) : conv.dir.entries[i].name = "a"
    /\ \E i \in 1..Len(conv.dir.entries) : conv.dir.entries[i].kind = "dir"

\* ---------------------------------------------------------------------------
\* attach_policy and what it leaves behind when it fails
\* ---------------------------------------------------------------------------

MaxAttachOps == 2

\* an Option as a sequence of no or one element
OptionOf(map, id) == IF id \in DOMAIN map THEN <<map[id]>> ELSE <<>>

\* <id>.policy.yaml, <id>.policy.meta.json and the policy-registry entry of id
PolicyStateOf(id) ==
    [yaml |-> OptionOf(policy_yaml, id), meta |-> OptionOf(policy_meta, id),
     template |-> OptionOf(policy_registry, id)]

NoPolicyState == [yaml |-> <<>>, meta |-> <<>>, template |-> <<>>]

InitAttach ==
    /\ \E dir \in {UsedDir, TwoDir} : \E order \in ListingOrders(dir) : InitManager(dir, order)
    /\ conv = [p \in Tasks |-> NoPolicyState]

\* attach_policy is entered; conv keeps what the call found for the component
AttachEnter(p, id, uri) ==
    /\ nops < MaxAttachOps
    /\ nops' = nops + 1
    /\ AttachBegin(p, id, uri)
    /\ NoConflict(p, id, "policy")
    /\ conv' = [conv EXCEPT ![p] = PolicyStateOf(id)]
    /\ UNCHANGED <<last, base, granted, lockVars, toolVars>>

NextAttach ==
    \/ \E p \in Tasks, id \in Ids, uri \in PolicyUris : AttachEnter(p, id, uri)
    \/ \E p \in Tasks : AttachFetch(p) /\ ContinuedPolicyOp
    \/ \E p \in Tasks : AttachCopy(p) /\ ContinuedPolicyOp
    \/ \E p \in Tasks : AttachMeta(p) /\ ContinuedPolicyOp
    \/ \E p \in Tasks : AttachRegistry(p) /\ ContinuedPolicyOp

SpecAttach == InitAttach /\ [][NextAttach]_vars

\* the attach_policy of task p returns an error in this step
AttachFailed(p) == pc[p] # "idle" /\ pc'[p] = "idle" /\ ret'.op = "attach" /\ ret'.res = "Err"

\* C38: if attach_policy returns an error at any step, the component's
\* <id>.policy.yaml, <id>.policy.meta.json and policy-registry entry are all
\* as they were before the call.
C38_FailedAttachChangesNothing ==
    [][\A p \in Tasks :
          AttachFailed(p) =>
              /\ OptionOf(policy_yaml', loc[p].id) = conv[p].yaml
              /\ OptionOf(policy_meta', loc[p].id) = conv[p].meta
              /\ OptionOf(policy_registry', loc[p].id) = conv[p].template]_vars

\* the part that holds: the registry entry is as before after every failed
\* attach, and so are both files when the fetch, the read, the parse or the
\* copy failed
C38_FailedAttachKeepsTemplate ==
    [][\A p \in Tasks :
          AttachFailed(p) =>
              /\ OptionOf(policy_registry', loc[p].id) = conv[p].template
              /\ ret'.info \in {"parse", "copy"} =>
                    /\ OptionOf(policy_yaml', loc[p].id) = conv[p].yaml
                    /\ OptionOf(policy_meta', loc[p].id) = conv[p].meta]_vars

\* ---------------------------------------------------------------------------
\* Load, what a failed Load leaves in the plugin directory, and restart
\* ---------------------------------------------------------------------------

MaxLoadOps == 2

\* history: the <id>.wasm each running Load found, and the ids whose Load was
\* reported as failed when no <id>.wasm existed before it
InitLoadFail ==
    /\ \E dir \in PluginDirs : \E order \in ListingOrders(dir) : InitManager(dir, order)
    /\ conv = [found |-> [p \in Tasks |-> <<>>], failed |-> {}]

StartedLoadOp ==
    /\ nops < MaxLoadOps
    /\ nops' = nops + 1
    /\ UNCHANGED <<last, base, granted, lockVars, toolVars>>

loadFrame == UNCHANGED <<histVars, lockVars, toolVars>>

NextLoadFail ==
    \/ \E p \in Tasks, id \in Ids :
          /\ LoadAbort(p, id)
          /\ StartedLoadOp
          /\ UNCHANGED conv
    \/ \E p \in Tasks, id \in Ids, bin \in Binaries :
          /\ LoadRegister(p, id, bin)
          /\ NoConflict(p, id, "lifecycle")
          /\ StartedLoadOp
          /\ conv' = [conv EXCEPT !.found[p] = OptionOf(wasm, id)]
    \/ \E p \in Tasks : LoadCopyOk(p) /\ loadFrame /\ UNCHANGED conv
    \/ \E p \in Tasks : LoadCopyFail(p) /\ loadFrame /\ UNCHANGED conv
    \/ \E p \in Tasks :
          /\ LoadRollback(p)
          /\ loadFrame
          /\ conv' = IF conv.found[p] = <<>>
                     THEN [conv EXCEPT !.failed = @ \cup {loc[p].id}]
                     ELSE conv
    \/ \E p \in Tasks :
          /\ LoadInsert(p)
          /\ loadFrame
          /\ conv' = [conv EXCEPT !.failed = @ \ {loc[p].id}]
    \/ \E order \in ListingOrders(CurrentDir) :
          /\ Restart(order)
          /\ StartedLoadOp
          /\ UNCHANGED conv

SpecLoadFail == InitLoadFail /\ [][NextLoadFail]_vars

\* the Load of task p returns the copy error in this step
LoadFailed(p) == pc[p] = "load_rollback" /\ pc'[p] = "idle" /\ ret'.res = "Err"

\* C39: if Load returns an error at any step, including a failure inside the
\* copy step after the downloaded file was renamed into place, the plugin
\* directory contains no <id>.wasm created or replaced by that Load, so a
\* later restart does not load a component whose Load was reported as failed.
C39_FailedLoadLeavesNoFile ==
    /\ [][\A p \in Tasks : LoadFailed(p) => OptionOf(wasm', loc[p].id) = conv.found[p]]_vars
    /\ [](ret.op = "new" => \A id \in conv.failed : id \notin DOMAIN components)

\* the part that holds: a Load that fails before the copy step touches no file
C39_AbortedLoadLeavesNoFile ==
    [][(ret'.op = "load" /\ ret'.res = "Err" /\ ret'.info = "fetch") => wasm' = wasm]_vars

\* ---------------------------------------------------------------------------
\* KeepAliveServer: update_activity against the keep-alive task
\* ---------------------------------------------------------------------------

\* the clock runs from 0 to MaxTime, in units of a minute
MaxTime == 10

\* update_activity is called at most MaxActivity times
MaxActivity == 1

\* 480 s and 300 s in minutes
KeepAliveThreshold == 480 \div 60
KeepAliveInterval == 300 \div 60

\* u64 arithmetic, with the 64-bit width scaled to 6 bits
U64Modulus == 2^6

\* overflow-checks is a property of the build: with it `now - last` panics on
\* underflow, without it the difference wraps
IdleKeepAlive(checked) ==
    [clock |-> 0, last_activity |-> 0, checked |-> checked,
     ka_pc |-> "wait", next_tick |-> 0, ka_now |-> 0, ka_last |-> 0,
     h_pc |-> [p \in Tasks |-> "idle"], h_now |-> [p \in Tasks |-> 0],
     calls |-> 0, underflow |-> FALSE, pinged |-> FALSE, elapsed |-> 0]

\* KeepAliveServer::new at time 0
InitKeepAlive ==
    /\ InitManager(EmptyDir, <<>>)
    /\ \E checked \in BOOLEAN : conv = IdleKeepAlive(checked)

\* the system clock advances
ClockTick ==
    /\ conv.clock < MaxTime
    /\ conv' = [conv EXCEPT !.clock = @ + 1]
    /\ convFrame

\* update_activity: SystemTime::now() ... as_secs()
ActivityNow(p) ==
    /\ conv.h_pc[p] = "idle"
    /\ conv.calls < MaxActivity
    /\ conv' = [conv EXCEPT !.h_pc[p] = "store", !.h_now[p] = conv.clock, !.calls = @ + 1]
    /\ convFrame

\* update_activity: last_activity.store(now, Relaxed)
ActivityStore(p) ==
    /\ conv.h_pc[p] = "store"
    /\ conv' = [conv EXCEPT !.h_pc[p] = "idle", !.h_now[p] = 0,
                            !.last_activity = conv.h_now[p]]
    /\ convFrame

\* interval.tick().await returns: at once the first time, then not before a
\* period after the previous tick (MissedTickBehavior::Delay)
KeepAliveTick ==
    /\ conv.ka_pc = "wait"
    /\ conv.clock >= conv.next_tick
    /\ conv' = [conv EXCEPT !.ka_pc = "now", !.next_tick = conv.clock + KeepAliveInterval]
    /\ convFrame

\* let now = SystemTime::now() ... as_secs()
KeepAliveNow ==
    /\ conv.ka_pc = "now"
    /\ conv' = [conv EXCEPT !.ka_pc = "load", !.ka_now = conv.clock]
    /\ convFrame

\* let last = last_activity.load(Relaxed)
KeepAliveLoad ==
    /\ conv.ka_pc = "load"
    /\ conv' = [conv EXCEPT !.ka_pc = "compare", !.ka_last = conv.last_activity]
    /\ convFrame

\* now - last on u64
SubU64(now, before) == (now - before + U64Modulus) % U64Modulus

\* if now - last > 480: panics on underflow in a checked build (the task ends)
KeepAliveCompare ==
    /\ conv.ka_pc = "compare"
    /\ LET under == conv.ka_last > conv.ka_now
       IN conv' = [conv EXCEPT
                     !.underflow = @ \/ under,
                     !.ka_last = 0,
                     !.ka_now = IF (under /\ conv.checked)
                                   \/ SubU64(conv.ka_now, conv.ka_last) <= KeepAliveThreshold
                                THEN 0 ELSE @,
                     !.ka_pc = IF under /\ conv.checked THEN "panicked"
                               ELSE IF SubU64(conv.ka_now, conv.ka_last) > KeepAliveThreshold
                               THEN "ping" ELSE "wait"]
    /\ convFrame

\* peer.send_notification(ping); elapsed is the time since the activity that
\* last_activity records at this moment
KeepAlivePing ==
    /\ conv.ka_pc = "ping"
    /\ conv' = [conv EXCEPT !.ka_pc = "store", !.pinged = TRUE,
                            !.elapsed = conv.clock - conv.last_activity]
    /\ convFrame

\* last_activity.store(now, Relaxed) after the ping; now goes out of scope
KeepAliveStore ==
    /\ conv.ka_pc = "store"
    /\ conv' = [conv EXCEPT !.ka_pc = "wait", !.ka_now = 0, !.elapsed = 0,
                            !.last_activity = conv.ka_now]
    /\ convFrame

NextKeepAlive ==
    \/ ClockTick
    \/ \E p \in Tasks : ActivityNow(p)
    \/ \E p \in Tasks : ActivityStore(p)
    \/ KeepAliveTick
    \/ KeepAliveNow
    \/ KeepAliveLoad
    \/ KeepAliveCompare
    \/ KeepAlivePing
    \/ KeepAliveStore

SpecKeepAlive == InitKeepAlive /\ [][NextKeepAlive]_vars

\* C40: for every interleaving of request handlers calling update_activity
\* with the keep-alive task, the task never computes now - last with last
\* greater than now, and a keep-alive ping is sent only when more than 480
\* seconds have really passed since the last recorded activity.
C40_NoUnderflowAndPingOnlyWhenIdle ==
    /\ ~conv.underflow
    /\ conv.ka_pc = "store" => conv.elapsed > KeepAliveThreshold

\* without a request handler in between, the keep-alive task alone never
\* underflows and pings only after more than 480 seconds
C40_AloneNoUnderflow ==
    conv.calls = 0 => C40_NoUnderflowAndPingOnlyWhenIdle

====
